---- MODULE Spec2Model ----
(***************************************************************************)
(* Rent-payment reconciliation of MyPropMate: the poll cycle of            *)
(* PaymentProcessor.process_new_payments, the per-notification workflow    *)
(* _process_single_payment, and the stores it reads and writes (Gmail      *)
(* labels, Supabase tenants and payments, Invoice Ninja invoices).         *)
(*                                                                         *)
(* Strings whose content the code inspects are sequences of one-character  *)
(* strings.  Optional values are sequences of length at most one: <<>> is  *)
(* Python's None and <<v>> is the value v.  Money is held in cents where   *)
(* the code holds a two-decimal number, and is converted to an IEEE-754    *)
(* binary64 value wherever the code does float arithmetic on it.           *)
(***************************************************************************)
EXTENDS Integers, Sequences, FiniteSets, TLC

(***************************************************************************)
(* Bounds of the model.                                                    *)
(***************************************************************************)
\* largest number of notifications sitting in the mailbox
MaxInbox == 2
\* largest number of collaborator calls that fail in one behaviour
MaxFailures == 1

(***************************************************************************)
(* binary64 arithmetic.  A non-negative double d below 2^36 is held as the *)
(* integer d * 2^64, written in NumLimbs limbs of LimbBits bits, least     *)
(* significant limb first.                                                 *)
(***************************************************************************)
LimbBits == 20
LimbBase == 2 ^ LimbBits
NumLimbs == 5
MantissaBits == 53

\* c * 2^64 for a small natural c (64 = 3 * LimbBits + 4)
BigOfCentsScaled(c) == <<0, 0, 0, (c * 16) % LimbBase, (c * 16) \div LimbBase>>

\* quotient and remainder of n by a divisor d <= 2047, limb by limb from
\* the most significant one
BigDivSmall(n, d) ==
    LET c5 == n[5]
        c4 == (c5 % d) * LimbBase + n[4]
        c3 == (c4 % d) * LimbBase + n[3]
        c2 == (c3 % d) * LimbBase + n[2]
        c1 == (c2 % d) * LimbBase + n[1]
    IN  [q |-> <<c1 \div d, c2 \div d, c3 \div d, c4 \div d, c5 \div d>>, r |-> c1 % d]

BigAdd(a, b) ==
    LET s1 == a[1] + b[1]
        s2 == a[2] + b[2] + (s1 \div LimbBase)
        s3 == a[3] + b[3] + (s2 \div LimbBase)
        s4 == a[4] + b[4] + (s3 \div LimbBase)
        s5 == a[5] + b[5] + (s4 \div LimbBase)
    IN  <<s1 % LimbBase, s2 % LimbBase, s3 % LimbBase, s4 % LimbBase, s5 % LimbBase>>

\* a - b for a >= b
BigSub(a, b) ==
    LET d1 == a[1] - b[1]
        d2 == a[2] - b[2] - (IF d1 < 0 THEN 1 ELSE 0)
        d3 == a[3] - b[3] - (IF d2 < 0 THEN 1 ELSE 0)
        d4 == a[4] - b[4] - (IF d3 < 0 THEN 1 ELSE 0)
        d5 == a[5] - b[5] - (IF d4 < 0 THEN 1 ELSE 0)
    IN  <<d1 % LimbBase, d2 % LimbBase, d3 % LimbBase, d4 % LimbBase, d5 % LimbBase>>

BigLess(a, b) ==
    \E i \in 1..NumLimbs : a[i] < b[i] /\ \A j \in (i + 1)..NumLimbs : a[j] = b[j]

\* bit i of n, bit 1 being the least significant
BigBit(n, i) == (n[((i - 1) \div LimbBits) + 1] \div (2 ^ ((i - 1) % LimbBits))) % 2

\* position of the most significant set bit, 0 for zero
BigLen(n) ==
    LET ones == {i \in 1..(NumLimbs * LimbBits) : BigBit(n, i) = 1}
    IN  IF ones = {} THEN 0 ELSE CHOOSE i \in ones : \A j \in ones : j <= i

BigPow2(k) ==
    [i \in 1..NumLimbs |-> IF i = (k \div LimbBits) + 1 THEN 2 ^ (k % LimbBits) ELSE 0]

\* n with its k least significant bits cleared
BigTruncate(n, k) ==
    [i \in 1..NumLimbs |->
        IF i < (k \div LimbBits) + 1 THEN 0
        ELSE IF i = (k \div LimbBits) + 1
             THEN (n[i] \div (2 ^ (k % LimbBits))) * (2 ^ (k % LimbBits))
             ELSE n[i]]

\* round-to-nearest, ties-to-even, to a 53-bit significand; sticky tells
\* that the exact value lies strictly above n
RoundToDouble(n, sticky) ==
    IF BigLen(n) <= MantissaBits THEN n
    ELSE LET k     == BigLen(n) - MantissaBits
             guard == BigBit(n, k)
             low   == sticky \/ \E i \in 1..(k - 1) : BigBit(n, i) = 1
             odd   == BigBit(n, k + 1) = 1
             t     == BigTruncate(n, k)
         IN  IF guard = 1 /\ (low \/ odd) THEN BigAdd(t, BigPow2(k)) ELSE t

\* float("X.YY") for the two-decimal number of c cents
FloatOfCents(c) ==
    LET x == BigDivSmall(BigOfCentsScaled(c), 100)
    IN  RoundToDouble(x.q, x.r # 0)

\* a + b on doubles
FloatAdd(a, b) == RoundToDouble(BigAdd(a, b), FALSE)

\* abs(a - b) on doubles
FloatAbsDiff(a, b) ==
    IF BigLess(a, b) THEN RoundToDouble(BigSub(b, a), FALSE)
    ELSE RoundToDouble(BigSub(a, b), FALSE)

\* PaymentProcessor.AMOUNT_TOLERANCE = 0.01, in cents
AMOUNT_TOLERANCE == 1

\* tenant.get("parking_fee", 0) or 0
ParkingOrZero(parking_fee) == IF parking_fee = <<>> THEN 0 ELSE parking_fee[1]

\* expected_amount = float(monthly_rent) + float(parking_fee or 0)
ExpectedAmount(monthly_rent, parking_fee) ==
    FloatAdd(FloatOfCents(monthly_rent), FloatOfCents(ParkingOrZero(parking_fee)))

\* abs(payment.amount - expected_amount) > self.AMOUNT_TOLERANCE
AmountMismatch(amount, monthly_rent, parking_fee) ==
    BigLess(FloatOfCents(AMOUNT_TOLERANCE),
            FloatAbsDiff(FloatOfCents(amount), ExpectedAmount(monthly_rent, parking_fee)))

(***************************************************************************)
(* Text.                                                                   *)
(***************************************************************************)
DigitChars == <<"0", "1", "2", "3", "4", "5", "6", "7", "8", "9">>

IsDigit(c) == \E i \in 1..10 : DigitChars[i] = c

DigitVal(c) == (CHOOSE i \in 1..10 : DigitChars[i] = c) - 1

\* the strings int() accepts, over the alphabet of digits, "-" and letters
IsDigits(s) == Len(s) > 0 /\ \A i \in 1..Len(s) : IsDigit(s[i])

RECURSIVE ParseInt(_)
ParseInt(s) ==
    IF Len(s) = 0 THEN 0
    ELSE ParseInt(SubSeq(s, 1, Len(s) - 1)) * 10 + DigitVal(s[Len(s)])

\* the digits without their leading zeros
RECURSIVE Significant(_)
Significant(s) ==
    IF Len(s) = 0 \/ s[1] # "0" THEN s ELSE Significant(Tail(s))

\* int(s) does not fit the C int that date() converts its arguments to
\* (above 2147483647): date raises OverflowError and not ValueError
ExceedsCInt(s) ==
    LET d == Significant(s)
    IN  \/ Len(d) > 10
        \/ /\ Len(d) = 10
           /\ \/ ParseInt(SubSeq(d, 1, 9)) > 214748364
              \/ ParseInt(SubSeq(d, 1, 9)) = 214748364 /\ DigitVal(d[10]) > 7

\* what a call returns in the model when OverflowError leaves it
OverflowError == <<"OverflowError">>

\* str.split(sep)
RECURSIVE Split(_, _)
Split(s, sep) ==
    IF \A i \in 1..Len(s) : s[i] # sep THEN <<s>>
    ELSE LET k == CHOOSE i \in 1..Len(s) : s[i] = sep /\ \A j \in 1..(i - 1) : s[j] # sep
         IN  <<SubSeq(s, 1, k - 1)>> \o Split(SubSeq(s, k + 1, Len(s)), sep)

\* the decimal digits of n, zero-padded to at least w characters
RECURSIVE ZeroPad(_, _)
ZeroPad(n, w) ==
    IF n < 10 /\ w <= 1 THEN <<DigitChars[n + 1]>>
    ELSE ZeroPad(n \div 10, w - 1) \o <<DigitChars[(n % 10) + 1]>>

\* date(y, m, 1).strftime("%Y-%m"); the C library decides whether %Y pads a
\* year below 1000 with zeros (zero_pad) or prints it as it is
strftime_Ym(y, m, zero_pad) ==
    ZeroPad(y, IF zero_pad THEN 4 ELSE 1) \o <<"-">> \o ZeroPad(m, 2)

\* a YYYY-MM string as the tenants table holds it
FormatYearMonth(y, m) == strftime_Ym(y, m, TRUE)

\* str.lower() and str.upper() on the letters of the alphabet
UpperChars ==
    <<"A", "B", "C", "D", "E", "F", "G", "H", "I", "J", "K", "L", "M", "N", "O", "P", "Q",
      "R", "S", "T", "U", "V", "W", "X", "Y", "Z">>
LowerChars ==
    <<"a", "b", "c", "d", "e", "f", "g", "h", "i", "j", "k", "l", "m", "n", "o", "p", "q",
      "r", "s", "t", "u", "v", "w", "x", "y", "z">>

LowerChar(c) ==
    IF \E i \in 1..Len(UpperChars) : UpperChars[i] = c
    THEN LowerChars[CHOOSE i \in 1..Len(UpperChars) : UpperChars[i] = c]
    ELSE c

\* str.lower()
Lower(s) == [i \in 1..Len(s) |-> LowerChar(s[i])]

\* PostgreSQL's ILIKE: % matches any run of characters, _ any one character
RECURSIVE ILike(_, _)
ILike(s, pattern) ==
    IF Len(pattern) = 0 THEN Len(s) = 0
    ELSE IF pattern[1] = "%"
         THEN ILike(s, Tail(pattern)) \/ (Len(s) > 0 /\ ILike(Tail(s), pattern))
         ELSE /\ Len(s) > 0
              /\ (pattern[1] = "_" \/ LowerChar(pattern[1]) = LowerChar(s[1]))
              /\ ILike(Tail(s), Tail(pattern))

(***************************************************************************)
(* The month ledger.                                                       *)
(***************************************************************************)
\* date.today(), as year and month
Today == [year |-> 2024, month |-> 11]

NextMonthFromToday_current(today, zero_pad) ==
    strftime_Ym(today.year, today.month, zero_pad)

\* (date.today() + relativedelta(months=1)).strftime("%Y-%m")
NextMonthFromToday(today, zero_pad) ==
    IF today.month = 12 THEN strftime_Ym(today.year + 1, 1, zero_pad)
    ELSE strftime_Ym(today.year, today.month + 1, zero_pad)

bump_month_no_carry(year_month, today, zero_pad) ==
    IF year_month = <<>> \/ year_month[1] = <<>> THEN NextMonthFromToday(today, zero_pad)
    ELSE LET parts == Split(year_month[1], "-")
         IN  IF Len(parts) # 2 THEN NextMonthFromToday(today, zero_pad)
             ELSE IF ~IsDigits(parts[1]) \/ ~IsDigits(parts[2])
                  THEN NextMonthFromToday(today, zero_pad)
             ELSE IF ExceedsCInt(parts[1]) \/ ExceedsCInt(parts[2])
                  THEN OverflowError
             ELSE LET y == ParseInt(parts[1])
                      m == ParseInt(parts[2])
                  IN  IF y < 1 \/ y > 9999 \/ m < 1 \/ m > 12
                      THEN NextMonthFromToday(today, zero_pad)
                      ELSE strftime_Ym(y, IF m = 12 THEN 1 ELSE m + 1, zero_pad)

\* PaymentProcessor._bump_month; year_month is an optional string, today is
\* what date.today() returns, zero_pad is the C library's rendering of %Y;
\* the except clause catches ValueError and AttributeError only
bump_month(year_month, today, zero_pad) ==
    IF year_month = <<>> \/ year_month[1] = <<>> THEN NextMonthFromToday(today, zero_pad)
    ELSE LET parts == Split(year_month[1], "-")
         IN  IF Len(parts) # 2 THEN NextMonthFromToday(today, zero_pad)
             ELSE IF ~IsDigits(parts[1]) \/ ~IsDigits(parts[2])
                  THEN NextMonthFromToday(today, zero_pad)
             ELSE IF ExceedsCInt(parts[1]) \/ ExceedsCInt(parts[2])
                  THEN OverflowError
             ELSE LET y == ParseInt(parts[1])
                      m == ParseInt(parts[2])
                  IN  IF y < 1 \/ y > 9999 \/ m < 1 \/ m > 12
                      THEN NextMonthFromToday(today, zero_pad)
                      ELSE IF m = 12
                           THEN IF y = 9999 THEN NextMonthFromToday(today, zero_pad)
                                ELSE strftime_Ym(y + 1, 1, zero_pad)
                           ELSE strftime_Ym(y, m + 1, zero_pad)

(***************************************************************************)
(* The period label.                                                       *)
(***************************************************************************)
\* str.replace(old, ""): every occurrence of old, found left to right, is
\* left out
RECURSIVE Remove(_, _)
Remove(s, old) ==
    IF Len(s) < Len(old) THEN s
    ELSE IF SubSeq(s, 1, Len(old)) = old
         THEN Remove(SubSeq(s, Len(old) + 1, Len(s)), old)
         ELSE <<s[1]>> \o Remove(Tail(s), old)

\* str.strip() on strings whose only whitespace is the space
RECURSIVE Strip(_)
Strip(s) ==
    IF Len(s) = 0 THEN s
    ELSE IF s[1] = " " THEN Strip(Tail(s))
    ELSE IF s[Len(s)] = " " THEN Strip(SubSeq(s, 1, Len(s) - 1))
    ELSE s

\* the month names strftime("%B") prints in the C locale
MonthNames ==
    <<<<"J", "a", "n", "u", "a", "r", "y">>,
      <<"F", "e", "b", "r", "u", "a", "r", "y">>,
      <<"M", "a", "r", "c", "h">>,
      <<"A", "p", "r", "i", "l">>,
      <<"M", "a", "y">>,
      <<"J", "u", "n", "e">>,
      <<"J", "u", "l", "y">>,
      <<"A", "u", "g", "u", "s", "t">>,
      <<"S", "e", "p", "t", "e", "m", "b", "e", "r">>,
      <<"O", "c", "t", "o", "b", "e", "r">>,
      <<"N", "o", "v", "e", "m", "b", "e", "r">>,
      <<"D", "e", "c", "e", "m", "b", "e", "r">>>>

\* date(y, m, d).strftime("%B %Y")
strftime_BY(y, m, zero_pad) ==
    MonthNames[m] \o <<" ">> \o ZeroPad(y, IF zero_pad THEN 4 ELSE 1)

\* date(int(year), int(month), 1) in the try block of _determine_period
\* raises OverflowError, which its except clause does not catch
DateOverflows(next_due) ==
    LET parts == Split(next_due, "-")
    IN  /\ Len(parts) = 2
        /\ IsDigits(parts[1]) /\ IsDigits(parts[2])
        /\ ExceedsCInt(parts[1]) \/ ExceedsCInt(parts[2])

\* the try block of _determine_period: the YYYY-MM string as a date, or
\* nothing when split, int or date raises ValueError
DateOfYearMonth(next_due) ==
    LET parts == Split(next_due, "-")
    IN  IF Len(parts) # 2 THEN <<>>
        ELSE IF ~IsDigits(parts[1]) \/ ~IsDigits(parts[2]) THEN <<>>
        ELSE IF ExceedsCInt(parts[1]) \/ ExceedsCInt(parts[2]) THEN <<>>
        ELSE IF ParseInt(parts[1]) < 1 \/ ParseInt(parts[1]) > 9999 THEN <<>>
        ELSE IF ParseInt(parts[2]) < 1 \/ ParseInt(parts[2]) > 12 THEN <<>>
        ELSE <<[year |-> ParseInt(parts[1]), month |-> ParseInt(parts[2])]>>

\* period = period.replace("rent", "").replace("Rent", "").strip()
CleanMessage(message_line) ==
    Strip(Remove(Remove(message_line, <<"r", "e", "n", "t">>), <<"R", "e", "n", "t">>))

determine_period_ledger_first(message_line, next_due_month, payment_date, zero_pad) ==
    LET from_date == strftime_BY(payment_date.year, payment_date.month, zero_pad)
        from_message ==
            IF message_line # <<>> /\ message_line[1] # <<>>
                  /\ CleanMessage(message_line[1]) # <<>>
            THEN CleanMessage(message_line[1])
            ELSE from_date
    IN  IF next_due_month # <<>> /\ next_due_month[1] # <<>>
        THEN LET dt == DateOfYearMonth(next_due_month[1])
             IN  IF DateOverflows(next_due_month[1]) THEN OverflowError
                 ELSE IF dt # <<>> THEN strftime_BY(dt[1].year, dt[1].month, zero_pad)
                 ELSE from_message
        ELSE from_message

\* PaymentProcessor._determine_period; message_line and next_due_month are
\* optional strings; the except clause catches ValueError and AttributeError
\* only
determine_period(message_line, next_due_month, payment_date, zero_pad) ==
    LET from_date == strftime_BY(payment_date.year, payment_date.month, zero_pad)
        from_ledger ==
            IF next_due_month # <<>> /\ next_due_month[1] # <<>>
            THEN LET dt == DateOfYearMonth(next_due_month[1])
                 IN  IF DateOverflows(next_due_month[1]) THEN OverflowError
                     ELSE IF dt # <<>> THEN strftime_BY(dt[1].year, dt[1].month, zero_pad)
                     ELSE from_date
            ELSE from_date
    IN  IF message_line # <<>> /\ message_line[1] # <<>>
        THEN IF CleanMessage(message_line[1]) # <<>>
             THEN CleanMessage(message_line[1])
             ELSE from_ledger
        ELSE from_ledger

(***************************************************************************)
(* The parser of the notification e-mail.                                  *)
(***************************************************************************)
\* the characters \s matches in the texts of the model
Spaces == {" ", "\n"}

Digits == {DigitChars[i] : i \in 1..10}

Letters == {UpperChars[i] : i \in 1..Len(UpperChars)}
               \cup {LowerChars[i] : i \in 1..Len(LowerChars)}

\* str.upper() on one letter
UpperChar(c) ==
    IF \E i \in 1..Len(LowerChars) : LowerChars[i] = c
    THEN UpperChars[CHOOSE i \in 1..Len(LowerChars) : LowerChars[i] = c]
    ELSE c

\* the length of the longest run of characters of chars that starts at s[i]
RunLen(s, i, chars) ==
    CHOOSE n \in 0..(Len(s) + 1 - i) :
        /\ \A k \in 0..(n - 1) : s[i + k] \in chars
        /\ i + n <= Len(s) => s[i + n] \notin chars

\* word stands in s at position i, compared as re.IGNORECASE compares
MatchesAt(s, i, word) ==
    /\ i + Len(word) - 1 <= Len(s)
    /\ Lower(SubSeq(s, i, i + Len(word) - 1)) = Lower(word)

\* re.sub(r'<[^>]+>', ' ', body)
RECURSIVE strip_tags(_)
strip_tags(body) ==
    IF Len(body) = 0 THEN body
    ELSE IF body[1] = "<" /\ \E j \in 3..Len(body) :
                                 body[j] = ">" /\ \A k \in 2..(j - 1) : body[k] # ">"
         THEN LET j == CHOOSE j \in 3..Len(body) :
                           body[j] = ">" /\ \A k \in 2..(j - 1) : body[k] # ">"
              IN  <<" ">> \o strip_tags(SubSeq(body, j + 1, Len(body)))
         ELSE <<body[1]>> \o strip_tags(Tail(body))

\* re.sub(r'\s+', ' ', body_clean)
RECURSIVE collapse_whitespace(_)
collapse_whitespace(s) ==
    IF Len(s) = 0 THEN s
    ELSE IF s[1] \in Spaces
         THEN <<" ">> \o collapse_whitespace(SubSeq(s, 1 + RunLen(s, 1, Spaces), Len(s)))
         ELSE <<s[1]>> \o collapse_whitespace(Tail(s))

\* lines 126-127: the body without markup, whitespace runs as one space
body_clean(body) == Strip(collapse_whitespace(strip_tags(body)))

AmountPrefix ==
    <<"Y", "o", "u", "'", "v", "e", " ", "r", "e", "c", "e", "i", "v", "e", "d", " ",
      "$">>

\* r"You've received \$([0-9,]+\.[0-9]{2})" matches subject from position i
AmountMatchesAt(subject, i) ==
    LET p == i + Len(AmountPrefix)
        n == RunLen(subject, p, Digits \cup {","})
    IN  /\ MatchesAt(subject, i, AmountPrefix)
        /\ n >= 1
        /\ p + n + 2 <= Len(subject)
        /\ subject[p + n] = "."
        /\ subject[p + n + 1] \in Digits
        /\ subject[p + n + 2] \in Digits

\* re.search of line 131: group(1) of the leftmost match, or nothing
amount_match(subject) ==
    IF \E i \in 1..Len(subject) : AmountMatchesAt(subject, i)
    THEN LET i == CHOOSE i \in 1..Len(subject) :
                      /\ AmountMatchesAt(subject, i)
                      /\ \A j \in 1..(i - 1) : ~AmountMatchesAt(subject, j)
             p == i + Len(AmountPrefix)
             n == RunLen(subject, p, Digits \cup {","})
         IN  <<SubSeq(subject, p, p + n + 2)>>
    ELSE <<>>

\* amount_match.group(1).replace(',', '')
amount_str(group) == SelectSeq(group, LAMBDA c : c # ",")

\* float(amount_str), in cents: the digits before the point may be none
amount_of(group) ==
    LET str == amount_str(group)
    IN  ParseInt(SubSeq(str, 1, Len(str) - 3)) * 100
            + ParseInt(SubSeq(str, Len(str) - 1, Len(str)))

FromWord == <<"f", "r", "o", "m">>

\* what (.+)$ captures of rest: . is any character but the newline and $ is
\* the end of the string or the place before a newline that ends it
LineToEnd(rest) ==
    LET q == IF Len(rest) > 0 /\ rest[Len(rest)] = "\n"
             THEN SubSeq(rest, 1, Len(rest) - 1) ELSE rest
    IN  IF Len(q) > 0 /\ \A k \in 1..Len(q) : q[k] # "\n" THEN <<q>> ELSE <<>>

\* r'from\s+(.+)$' tried from position i: \s+ takes as many characters as
\* leave a match for the rest
FromGroupAt(subject, i) ==
    LET p == i + Len(FromWord)
        w == RunLen(subject, p, Spaces)
        ks == {k \in 1..w : LineToEnd(SubSeq(subject, p + k, Len(subject))) # <<>>}
    IN  IF ~MatchesAt(subject, i, FromWord) \/ ks = {} THEN <<>>
        ELSE LET k == CHOOSE k \in ks : \A l \in ks : l <= k
             IN  LineToEnd(SubSeq(subject, p + k, Len(subject)))

\* re.search of line 144: group(1) of the leftmost match, or nothing
from_match(subject) ==
    IF \E i \in 1..Len(subject) : FromGroupAt(subject, i) # <<>>
    THEN FromGroupAt(subject, CHOOSE i \in 1..Len(subject) :
                                  /\ FromGroupAt(subject, i) # <<>>
                                  /\ \A j \in 1..(i - 1) : FromGroupAt(subject, j) = <<>>)
    ELSE <<>>

\* str.split(): the words between runs of whitespace
RECURSIVE SplitWords(_)
SplitWords(s) ==
    IF Len(s) = 0 THEN <<>>
    ELSE IF s[1] \in Spaces THEN SplitWords(SubSeq(s, 1 + RunLen(s, 1, Spaces), Len(s)))
    ELSE LET n == RunLen(s, 1, {s[k] : k \in 1..Len(s)} \ Spaces)
         IN  <<SubSeq(s, 1, n)>> \o SplitWords(SubSeq(s, n + 1, Len(s)))

\* str.capitalize()
Capitalize(word) ==
    [k \in 1..Len(word) |-> IF k = 1 THEN UpperChar(word[k]) ELSE LowerChar(word[k])]

\* ' '.join(words)
RECURSIVE JoinWords(_)
JoinWords(words) ==
    IF Len(words) = 0 THEN <<>>
    ELSE IF Len(words) = 1 THEN words[1]
    ELSE words[1] \o <<" ">> \o JoinWords(Tail(words))

sender_name_lower(group) ==
    LET words == SplitWords(Strip(group))
    IN  JoinWords([k \in 1..Len(words) |-> Lower(words[k])])

\* lines 149-150
sender_name(group) ==
    LET words == SplitWords(Strip(group))
    IN  JoinWords([k \in 1..Len(words) |-> Capitalize(words[k])])

Terminators ==
    {<<"D", "a", "t", "e", ":">>,
     <<"R", "e", "f", "e", "r", "e", "n", "c", "e">>,
     <<"S", "e", "n", "t", " ", "F", "r", "o", "m", ":">>,
     <<"A", "m", "o", "u", "n", "t", ":">>}

TerminatorAt(s, t) == \E word \in Terminators : MatchesAt(s, t, word)

MessageWord == <<"M", "e", "s", "s", "a", "g", "e", ":">>

\* [^D] under re.IGNORECASE
NotD(c) == c \notin {"D", "d"}

\* r'Message:\s*([^D]+?)\s*(?:Date:|Reference|Sent From:|Amount:)' tried from
\* position i: the first \s* takes as much as it can, the group as little
MessageGroupAt(s, i) ==
    LET p == i + Len(MessageWord)
        w == RunLen(s, p, Spaces)
        Ends(g, h) ==
            /\ \A k \in g..h : NotD(s[k])
            /\ TerminatorAt(s, h + 1 + RunLen(s, h + 1, Spaces))
        cands == {c \in (p..(p + w)) \X (p..Len(s)) : c[1] <= c[2] /\ Ends(c[1], c[2])}
    IN  IF ~MatchesAt(s, i, MessageWord) \/ cands = {} THEN <<>>
        ELSE LET g == CHOOSE g \in p..(p + w) :
                          /\ \E c \in cands : c[1] = g
                          /\ \A c \in cands : c[1] <= g
                 h == CHOOSE h \in g..Len(s) :
                          /\ <<g, h>> \in cands
                          /\ \A c \in cands : c[1] = g => h <= c[2]
             IN  <<SubSeq(s, g, h)>>

\* lines 153-158: msg_match.group(1).strip() if msg_match else None
message_line(clean) ==
    IF \E i \in 1..Len(clean) : MessageGroupAt(clean, i) # <<>>
    THEN LET g == MessageGroupAt(clean, CHOOSE i \in 1..Len(clean) :
                                     /\ MessageGroupAt(clean, i) # <<>>
                                     /\ \A j \in 1..(i - 1) : MessageGroupAt(clean, j) = <<>>)
         IN  <<Strip(g[1])>>
    ELSE <<>>

DateWord == <<"D", "a", "t", "e", ":">>

\* r'Date:\s*([A-Za-z]{3,}\s*\d{1,2},\s*\d{4})' tried from position i
DateGroupAt(s, i) ==
    LET a == i + Len(DateWord) + RunLen(s, i + Len(DateWord), Spaces)
        b == a + RunLen(s, a, Letters)
        c == b + RunLen(s, b, Spaces)
        d == c + RunLen(s, c, Digits)
        e == d + 1 + RunLen(s, d + 1, Spaces)
    IN  IF /\ MatchesAt(s, i, DateWord)
           /\ b - a >= 3
           /\ d - c \in {1, 2}
           /\ d <= Len(s)
           /\ s[d] = ","
           /\ RunLen(s, e, Digits) >= 4
        THEN <<SubSeq(s, a, e + 3)>>
        ELSE <<>>

\* re.search of line 161: group(1) of the leftmost match, or nothing
date_match(clean) ==
    IF \E i \in 1..Len(clean) : DateGroupAt(clean, i) # <<>>
    THEN DateGroupAt(clean, CHOOSE i \in 1..Len(clean) :
                                /\ DateGroupAt(clean, i) # <<>>
                                /\ \A j \in 1..(i - 1) : DateGroupAt(clean, j) = <<>>)
    ELSE <<>>

\* the month names strptime("%b") reads in the C locale
MonthAbbreviations == [m \in 1..12 |-> SubSeq(MonthNames[m], 1, 3)]

IsLeapYear(y) == y % 4 = 0 /\ (y % 100 # 0 \/ y % 400 = 0)

DaysInMonth(y, m) ==
    IF m = 2 THEN IF IsLeapYear(y) THEN 29 ELSE 28
    ELSE IF m \in {4, 6, 9, 11} THEN 30 ELSE 31

\* datetime.strptime(text, '<names> %d, %Y').date() with names the table of
\* %B or of %b, or nothing where it raises ValueError: a month name in any
\* case, whitespace, a day, a comma, whitespace and four digits
strptime(text, names) ==
    LET b == 1 + RunLen(text, 1, Letters)
        c == b + RunLen(text, b, Spaces)
        d == c + RunLen(text, c, Digits)
        e == d + 1 + RunLen(text, d + 1, Spaces)
        day == ParseInt(SubSeq(text, c, d - 1))
        year == ParseInt(SubSeq(text, e, Len(text)))
    IN  IF /\ \E m \in 1..12 : Lower(SubSeq(text, 1, b - 1)) = Lower(names[m])
           /\ c > b
           /\ d - c \in {1, 2}
           /\ d <= Len(text)
           /\ text[d] = ","
           /\ e > d + 1
           /\ Len(text) = e + 3
           /\ RunLen(text, e, Digits) = 4
        THEN LET month == CHOOSE m \in 1..12 :
                              Lower(SubSeq(text, 1, b - 1)) = Lower(names[m])
             IN  IF year >= 1 /\ day >= 1 /\ day <= DaysInMonth(year, month)
                 THEN <<[year |-> year, month |-> month, day |-> day]>>
                 ELSE <<>>
        ELSE <<>>

\* lines 160-179
parsed_date(clean, email_date) ==
    LET m == date_match(clean)
    IN  IF m = <<>> THEN email_date
        ELSE IF strptime(m[1], MonthNames) # <<>> THEN strptime(m[1], MonthNames)[1]
        ELSE IF strptime(m[1], MonthAbbreviations) # <<>>
             THEN strptime(m[1], MonthAbbreviations)[1]
        ELSE email_date

\* GmailWatcher._parse_interac_email: nothing for None, else the
\* ParsedInteracEmail with the amount in cents
parse_interac_email(message_id, subject, body, email_date) ==
    IF amount_match(subject) = <<>> THEN <<>>
    ELSE IF from_match(subject) = <<>> THEN <<>>
    ELSE <<[email_id |-> message_id,
            sender_name |-> sender_name(from_match(subject)[1]),
            amount |-> amount_of(amount_match(subject)[1]),
            payment_date |-> parsed_date(body_clean(body), email_date),
            message_line |-> message_line(body_clean(body)),
            raw_subject |-> subject]>>

(***************************************************************************)
(* The data of the model: tenant rows and payment notifications.           *)
(***************************************************************************)
TenantIds == {"t1", "t2"}

\* rows of the tenants table before the first poll
InitialTenants ==
    [t \in TenantIds |->
        IF t = "t1"
        THEN [id |-> "t1", name |-> <<"A", "l">>, monthly_rent |-> 120000,
              parking_fee |-> <<15000>>, next_due_month |-> <<FormatYearMonth(2024, 11)>>,
              last_invoice_no |-> 5]
        ELSE [id |-> "t2", name |-> <<"B", "o">>, monthly_rent |-> 100000,
              parking_fee |-> <<>>, next_due_month |-> <<>>,
              last_invoice_no |-> 0]]

Emails == {"m1", "m2", "m3", "m4"}

\* the ParsedInteracEmail that _parse_interac_email builds from each message
Parsed ==
    [e \in Emails |->
        CASE e = "m1" -> [email_id |-> e, sender_name |-> <<"A", "l">>, amount |-> 135000]
          [] e = "m2" -> [email_id |-> e, sender_name |-> <<"A", "l">>, amount |-> 135001]
          [] e = "m3" -> [email_id |-> e, sender_name |-> <<"C", "y">>, amount |-> 135000]
          [] OTHER    -> [email_id |-> e, sender_name |-> <<"B", "o">>, amount |-> 90000]]

\* the order in which messages.list returns the messages
EmailOrder == <<"m1", "m2", "m3", "m4">>

\* maxResults of the messages.list call
MaxResults == 20

\* the two callers of process_new_payments: the interval job and the
\* POST /api/payments/process endpoint
Runs == {"sched", "manual"}

Stages == {"dup", "tenant", "invoice", "record", "ledger", "emailed"}

VARIABLES
    inbox,        \* messages in the mailbox that match INTERAC_QUERY's subject and sender
    labelled,     \* messages carrying the MyPropMate_Processed label
    labelExists,  \* whether the mailbox has the MyPropMate_Processed label
    tenants,      \* the tenants table
    payments,     \* the payments table, in insertion order
    invoices,     \* per email_id, the invoices created and emailed for it
    ledgerAdv,    \* per email_id, the ledger updates made on its account
    loop,         \* the run the event loop is executing, "none" when it is free
    pc,           \* per run, the statement it is at
    batch,        \* per run, the list fetch_new_payments returned
    idx,          \* per run, the position in batch of the current payment
    tenant,       \* per run, the tenant dict of the current workflow
    cur,          \* per run, what the current workflow has done so far
    trace,        \* per run, what became of each payment of this cycle
    results,      \* per run, the results dict
    fetchOk,      \* per run, whether this cycle's fetch returned
    labelCache,   \* per run, GmailWatcher.processed_label_id is set
    failures,     \* calls that have raised so far
    probe,        \* argument and result of a function applied on its own
    unparsed      \* unlabelled messages matching INTERAC_QUERY that
                  \* _parse_interac_email returns None for

vars == <<inbox, labelled, labelExists, tenants, payments, invoices, ledgerAdv, loop,
          pc, batch, idx, tenant, cur, trace, results, fetchOk, labelCache, failures,
          probe, unparsed>>

mailVars == <<inbox, labelled, labelExists, labelCache>>
storeVars == <<tenants, payments, invoices, ledgerAdv>>

NoTenant == [id |-> "none"]

FreshWorkflow ==
    [out |-> "none", stage |-> "none", inv |-> FALSE, paid |-> FALSE, adv |-> FALSE,
     payId |-> 0, before |-> NoTenant, notified |-> FALSE, notify_raised |-> FALSE]

EmptyResults == [processed |-> <<>>, errors |-> <<>>, skipped |-> <<>>]

NoProbe == [fn |-> "none"]

\* the program after construction, before the first poll
InitProgram ==
    /\ labelled = {}
    /\ tenants = InitialTenants
    /\ payments = <<>>
    /\ invoices = [e \in Emails |-> 0]
    /\ ledgerAdv = [e \in Emails |-> 0]
    /\ loop = "none"
    /\ pc = [r \in Runs |-> "idle"]
    /\ batch = [r \in Runs |-> <<>>]
    /\ idx = [r \in Runs |-> 0]
    /\ tenant = [r \in Runs |-> NoTenant]
    /\ cur = [r \in Runs |-> FreshWorkflow]
    /\ trace = [r \in Runs |-> <<>>]
    /\ results = [r \in Runs |-> EmptyResults]
    /\ fetchOk = [r \in Runs |-> FALSE]
    /\ labelCache = [r \in Runs |-> FALSE]
    /\ failures = 0

Init ==
    /\ inbox \in {s \in SUBSET Emails : Cardinality(s) >= 1 /\ Cardinality(s) <= MaxInbox}
    /\ labelExists \in BOOLEAN
    /\ InitProgram
    /\ probe = NoProbe
    /\ unparsed = 0

(***************************************************************************)
(* Helpers of the actions.                                                 *)
(***************************************************************************)
CurEmail(r) == batch[r][idx[r]]

Running(r) == pc[r] \notin {"idle", "done"}

CanFail == failures < MaxFailures

\* GmailWatcher.fetch_new_payments: messages.list returns at most maxResults
\* unlabelled messages, the unparsed ones (the latest to arrive) first; the
\* messages that parse are returned
fetch_new_payments ==
    LET found == SelectSeq(EmailOrder, LAMBDA e : e \in inbox /\ e \notin labelled)
        room  == IF unparsed < MaxResults THEN MaxResults - unparsed ELSE 0
    IN  SubSeq(found, 1, IF Len(found) < room THEN Len(found) ELSE room)

check_duplicate_payment_wrong_column(email_id) ==
    \E i \in DOMAIN payments : payments[i].tenant_id = email_id

\* SupabaseClient.check_duplicate_payment
check_duplicate_payment(email_id) ==
    \E i \in DOMAIN payments : payments[i].email_id = email_id

\* the rows that .ilike("name", name) selects
TenantsNamed(name) == {t \in TenantIds : ILike(tenants[t].name, name)}

\* what became of the current payment of run r
Entry(r, out, stage, markCalled, marked) ==
    [email_id |-> CurEmail(r), out |-> out, stage |-> stage, inv |-> cur[r].inv,
     paid |-> cur[r].paid, adv |-> cur[r].adv, markCalled |-> markCalled,
     marked |-> marked, notified |-> cur[r].notified,
     notify_raised |-> cur[r].notify_raised, before |-> cur[r].before]

\* the for loop of process_new_payments moves to the next payment, or the
\* function returns
FinishItem(r, entry) ==
    /\ trace' = [trace EXCEPT ![r] = Append(@, entry)]
    /\ cur' = [cur EXCEPT ![r] = FreshWorkflow]
    /\ tenant' = [tenant EXCEPT ![r] = NoTenant]
    /\ IF idx[r] < Len(batch[r])
       THEN /\ idx' = [idx EXCEPT ![r] = @ + 1]
            /\ pc' = [pc EXCEPT ![r] = "dup"]
            /\ loop' = r
       ELSE /\ idx' = idx
            /\ pc' = [pc EXCEPT ![r] = "done"]
            /\ loop' = "none"

UnexpectedErrorHandlerMarks(r, out, stage) ==
    /\ results' = [results EXCEPT ![r].errors =
                      Append(@, [kind |-> "unexpected", email_id |-> CurEmail(r)])]
    /\ labelled' = labelled \cup {CurEmail(r)}
    /\ FinishItem(r, Entry(r, out, stage, TRUE, TRUE))

\* the except Exception clause inside the for loop; it is entered from the
\* workflow (out = "fatal") and from the mark_as_processed call that follows
\* a returned workflow (stage = "mark")
UnexpectedErrorHandler(r, out, stage) ==
    /\ results' = [results EXCEPT ![r].errors =
                      Append(@, [kind |-> "unexpected", email_id |-> CurEmail(r)])]
    /\ labelled' = labelled
    /\ FinishItem(r, Entry(r, out, stage, stage = "mark", FALSE))

\* a collaborator call of the workflow raises at the given stage
WorkflowRaises(r, stage) ==
    /\ CanFail
    /\ failures' = failures + 1
    /\ UnexpectedErrorHandler(r, "fatal", stage)
    /\ UNCHANGED <<inbox, labelExists, labelCache, storeVars, batch, fetchOk, probe, unparsed>>

\* GmailWatcher.mark_as_processed returns: the label exists and is on the message
MarkSucceeds(r) ==
    /\ labelled' = labelled \cup {CurEmail(r)}
    /\ labelExists' = TRUE
    /\ labelCache' = [labelCache EXCEPT ![r] = TRUE]

\* GmailWatcher.mark_as_processed raises: before the label was looked up, or
\* after _ensure_processed_label found or created it
MarkFails(r) ==
    /\ CanFail
    /\ failures' = failures + 1
    /\ \/ UNCHANGED <<labelExists, labelCache>>
       \/ /\ ~labelCache[r]
          /\ labelExists' = TRUE
          /\ labelCache' = [labelCache EXCEPT ![r] = TRUE]

(***************************************************************************)
(* process_new_payments: the start of a cycle and the fetch.               *)
(***************************************************************************)
process_new_payments_partial_batch(r) ==
    /\ pc[r] \in {"idle", "done"}
    /\ loop = "none"
    /\ trace' = [trace EXCEPT ![r] = <<>>]
    /\ labelCache' = [labelCache EXCEPT ![r] = IF r = "manual" THEN FALSE ELSE @]
    /\ \/ /\ CanFail
          /\ failures' = failures + 1
          /\ results' = [results EXCEPT ![r] =
                            [EmptyResults EXCEPT !.errors =
                                <<[kind |-> "fetch", email_id |-> "none"]>>]]
          /\ fetchOk' = [fetchOk EXCEPT ![r] = FALSE]
       \/ /\ UNCHANGED failures
          /\ results' = [results EXCEPT ![r] = EmptyResults]
          /\ fetchOk' = [fetchOk EXCEPT ![r] = TRUE]
    /\ batch' = [batch EXCEPT ![r] = fetch_new_payments]
    /\ IF fetch_new_payments = <<>>
       THEN /\ idx' = [idx EXCEPT ![r] = 0]
            /\ pc' = [pc EXCEPT ![r] = "done"]
            /\ loop' = "none"
       ELSE /\ idx' = [idx EXCEPT ![r] = 1]
            /\ pc' = [pc EXCEPT ![r] = "dup"]
            /\ loop' = r
    /\ UNCHANGED <<inbox, labelled, labelExists, storeVars, tenant, cur, probe, unparsed>>

\* process_new_payments from the creation of results to the first payment of
\* the batch: the fetch raises, or it returns the batch
FetchPayments(r) ==
    /\ trace' = [trace EXCEPT ![r] = <<>>]
    /\ labelCache' = [labelCache EXCEPT ![r] = IF r = "manual" THEN FALSE ELSE @]
    /\ \/ /\ CanFail
          /\ failures' = failures + 1
          /\ results' = [results EXCEPT ![r] =
                            [EmptyResults EXCEPT !.errors =
                                <<[kind |-> "fetch", email_id |-> "none"]>>]]
          /\ fetchOk' = [fetchOk EXCEPT ![r] = FALSE]
          /\ batch' = [batch EXCEPT ![r] = <<>>]
          /\ idx' = [idx EXCEPT ![r] = 0]
          /\ pc' = [pc EXCEPT ![r] = "done"]
          /\ loop' = "none"
       \/ /\ UNCHANGED failures
          /\ results' = [results EXCEPT ![r] = EmptyResults]
          /\ fetchOk' = [fetchOk EXCEPT ![r] = TRUE]
          /\ batch' = [batch EXCEPT ![r] = fetch_new_payments]
          /\ IF fetch_new_payments = <<>>
             THEN /\ idx' = [idx EXCEPT ![r] = 0]
                  /\ pc' = [pc EXCEPT ![r] = "done"]
                  /\ loop' = "none"
             ELSE /\ idx' = [idx EXCEPT ![r] = 1]
                  /\ pc' = [pc EXCEPT ![r] = "dup"]
                  /\ loop' = r
    /\ UNCHANGED <<inbox, labelled, labelExists, storeVars, tenant, cur, probe, unparsed>>

\* a cycle starts when no coroutine holds the event loop
process_new_payments(r) ==
    /\ pc[r] \in {"idle", "done"}
    /\ loop = "none"
    /\ FetchPayments(r)

(***************************************************************************)
(* _process_single_payment, one action per collaborator call.              *)
(***************************************************************************)
\* is_duplicate = await self.db.check_duplicate_payment(payment.email_id)
DuplicateCheck(r) ==
    /\ pc[r] = "dup"
    /\ loop = r
    /\ \/ WorkflowRaises(r, "dup")
       \/ /\ check_duplicate_payment(CurEmail(r))
          /\ cur' = [cur EXCEPT ![r].out = "skipped"]
          /\ results' = [results EXCEPT ![r].processed =
                            Append(@, [status |-> "skipped", email_id |-> CurEmail(r)])]
          /\ pc' = [pc EXCEPT ![r] = "mark_ok"]
          /\ UNCHANGED <<mailVars, storeVars, loop, batch, idx, tenant, trace, fetchOk,
                         failures, probe, unparsed>>
       \/ /\ ~check_duplicate_payment(CurEmail(r))
          /\ pc' = [pc EXCEPT ![r] = "tenant"]
          /\ UNCHANGED <<mailVars, storeVars, loop, batch, idx, tenant, cur, trace,
                         results, fetchOk, failures, probe, unparsed>>

RaiseValidationErrorSilently(r) ==
    /\ results' = [results EXCEPT ![r].errors =
                      Append(@, [kind |-> "validation", email_id |-> CurEmail(r)])]
    /\ cur' = [cur EXCEPT ![r].out = "validation"]
    /\ pc' = [pc EXCEPT ![r] = "mark_val"]
    /\ UNCHANGED <<mailVars, storeVars, loop, batch, idx, tenant, trace, fetchOk,
                   failures, probe, unparsed>>

\* raise ValidationError, caught by the except ValidationError clause, which
\* records the error and calls _notify_landlord_error; an exception raised
\* in the notifier's try block is caught there
RaiseValidationError(r) ==
    /\ results' = [results EXCEPT ![r].errors =
                      Append(@, [kind |-> "validation", email_id |-> CurEmail(r)])]
    /\ \/ /\ cur' = [cur EXCEPT ![r].out = "validation", ![r].notified = TRUE]
          /\ UNCHANGED failures
       \/ /\ CanFail
          /\ failures' = failures + 1
          /\ cur' = [cur EXCEPT ![r].out = "validation", ![r].notified = TRUE,
                                ![r].notify_raised = TRUE]
    /\ pc' = [pc EXCEPT ![r] = "mark_val"]
    /\ UNCHANGED <<mailVars, storeVars, loop, batch, idx, tenant, trace, fetchOk,
                   probe, unparsed>>

\* tenant = await self.db.get_tenant_by_name(payment.sender_name)
TenantLookup(r) ==
    /\ pc[r] = "tenant"
    /\ loop = r
    /\ \/ WorkflowRaises(r, "tenant")
       \/ /\ TenantsNamed(Parsed[CurEmail(r)].sender_name) = {}
          /\ RaiseValidationError(r)
       \/ /\ \E t \in TenantsNamed(Parsed[CurEmail(r)].sender_name) :
                 tenant' = [tenant EXCEPT ![r] = tenants[t]]
          /\ pc' = [pc EXCEPT ![r] = "validate"]
          /\ UNCHANGED <<mailVars, storeVars, loop, batch, idx, cur, trace, results,
                         fetchOk, failures, probe, unparsed>>

AmountValidationAcceptsAll(r) ==
    /\ pc[r] = "validate"
    /\ loop = r
    /\ pc' = [pc EXCEPT ![r] = "invoice"]
    /\ UNCHANGED <<mailVars, storeVars, loop, batch, idx, tenant, cur, trace,
                   results, fetchOk, failures, probe, unparsed>>

\* if abs(payment.amount - expected_amount) > self.AMOUNT_TOLERANCE: raise
AmountValidation(r) ==
    /\ pc[r] = "validate"
    /\ loop = r
    /\ IF AmountMismatch(Parsed[CurEmail(r)].amount, tenant[r].monthly_rent,
                         tenant[r].parking_fee)
       THEN RaiseValidationError(r)
       ELSE /\ pc' = [pc EXCEPT ![r] = "invoice"]
            /\ UNCHANGED <<mailVars, storeVars, loop, batch, idx, tenant, cur, trace,
                           results, fetchOk, failures, probe, unparsed>>

\* await self.ninja.create_and_send_invoice(...): the coroutine is suspended
\* in httpx and the event loop is free to run another task
InvoiceCall(r) ==
    /\ pc[r] = "invoice"
    /\ loop = r
    /\ pc' = [pc EXCEPT ![r] = "invoice_wait"]
    /\ loop' = "none"
    /\ UNCHANGED <<mailVars, storeVars, batch, idx, tenant, cur, trace, results,
                   fetchOk, failures, probe, unparsed>>

InvoiceReturnAfterInsert(r) ==
    /\ pc[r] = "invoice_wait"
    /\ loop = "none"
    /\ \/ /\ CanFail
          /\ failures' = failures + 1
          /\ payments' = Append(payments, [email_id |-> CurEmail(r),
                                           tenant_id |-> tenant[r].id,
                                           email_sent |-> FALSE])
          /\ UnexpectedErrorHandler(r, "fatal", "invoice")
          /\ UNCHANGED <<inbox, labelExists, labelCache, tenants, invoices, ledgerAdv,
                         batch, fetchOk, probe, unparsed>>
       \/ /\ invoices' = [invoices EXCEPT ![CurEmail(r)] = @ + 1]
          /\ cur' = [cur EXCEPT ![r].inv = TRUE]
          /\ pc' = [pc EXCEPT ![r] = "record"]
          /\ loop' = r
          /\ UNCHANGED <<mailVars, tenants, payments, ledgerAdv, batch, idx, tenant,
                         trace, results, fetchOk, failures, probe, unparsed>>

\* create_and_send_invoice returns or raises; the run takes the event loop back
InvoiceReturn(r) ==
    /\ pc[r] = "invoice_wait"
    /\ loop = "none"
    /\ \/ WorkflowRaises(r, "invoice")
       \/ /\ invoices' = [invoices EXCEPT ![CurEmail(r)] = @ + 1]
          /\ cur' = [cur EXCEPT ![r].inv = TRUE]
          /\ pc' = [pc EXCEPT ![r] = "record"]
          /\ loop' = r
          /\ UNCHANGED <<mailVars, tenants, payments, ledgerAdv, batch, idx, tenant,
                         trace, results, fetchOk, failures, probe, unparsed>>

RecordPaymentSkipsLedger(r) ==
    /\ pc[r] = "record"
    /\ loop = r
    /\ \/ WorkflowRaises(r, "record")
       \/ /\ payments' = Append(payments, [email_id |-> CurEmail(r),
                                           tenant_id |-> tenant[r].id,
                                           email_sent |-> FALSE])
          /\ cur' = [cur EXCEPT ![r].paid = TRUE, ![r].payId = Len(payments) + 1]
          /\ pc' = [pc EXCEPT ![r] = "emailed"]
          /\ UNCHANGED <<mailVars, tenants, invoices, ledgerAdv, loop, batch, idx,
                         tenant, trace, results, fetchOk, failures, probe, unparsed>>

\* db_payment = await self.db.create_payment(...)
RecordPayment(r) ==
    /\ pc[r] = "record"
    /\ loop = r
    /\ \/ WorkflowRaises(r, "record")
       \/ /\ payments' = Append(payments, [email_id |-> CurEmail(r),
                                           tenant_id |-> tenant[r].id,
                                           email_sent |-> FALSE])
          /\ cur' = [cur EXCEPT ![r].paid = TRUE, ![r].payId = Len(payments) + 1]
          /\ pc' = [pc EXCEPT ![r] = "ledger"]
          /\ UNCHANGED <<mailVars, tenants, invoices, ledgerAdv, loop, batch, idx,
                         tenant, trace, results, fetchOk, failures, probe, unparsed>>

\* await self.db.update_tenant_after_payment(...), with new_invoice_no and
\* new_next_due computed from the tenant dict read by get_tenant_by_name
AdvanceLedger(r) ==
    /\ pc[r] = "ledger"
    /\ loop = r
    /\ \/ WorkflowRaises(r, "ledger")
       \/ /\ \E zero_pad \in BOOLEAN :
                 tenants' = [tenants EXCEPT
                     ![tenant[r].id].last_invoice_no = tenant[r].last_invoice_no + 1,
                     ![tenant[r].id].next_due_month =
                         <<bump_month(tenant[r].next_due_month, Today, zero_pad)>>]
          /\ ledgerAdv' = [ledgerAdv EXCEPT ![CurEmail(r)] = @ + 1]
          /\ cur' = [cur EXCEPT ![r].adv = TRUE, ![r].before = tenants[tenant[r].id]]
          /\ pc' = [pc EXCEPT ![r] = "emailed"]
          /\ UNCHANGED <<mailVars, payments, invoices, loop, batch, idx, tenant,
                         trace, results, fetchOk, failures, probe, unparsed>>

\* await self.db.mark_payment_emailed(db_payment["id"]); return the result
MarkPaymentEmailed(r) ==
    /\ pc[r] = "emailed"
    /\ loop = r
    /\ \/ WorkflowRaises(r, "emailed")
       \/ /\ payments' = [payments EXCEPT ![cur[r].payId].email_sent = TRUE]
          /\ cur' = [cur EXCEPT ![r].out = "success"]
          /\ results' = [results EXCEPT ![r].processed =
                            Append(@, [status |-> "success", email_id |-> CurEmail(r)])]
          /\ pc' = [pc EXCEPT ![r] = "mark_ok"]
          /\ UNCHANGED <<mailVars, tenants, invoices, ledgerAdv, loop, batch, idx,
                         tenant, trace, fetchOk, failures, probe, unparsed>>

(***************************************************************************)
(* process_new_payments: marking the email and the exception handlers.     *)
(***************************************************************************)
\* await self.gmail.mark_as_processed(payment.email_id) after the workflow
\* returned
MarkProcessed(r) ==
    /\ pc[r] = "mark_ok"
    /\ loop = r
    /\ \/ /\ MarkSucceeds(r)
          /\ FinishItem(r, Entry(r, cur[r].out, "none", TRUE, TRUE))
          /\ UNCHANGED <<inbox, storeVars, batch, results, fetchOk, failures, probe, unparsed>>
       \/ /\ MarkFails(r)
          /\ UnexpectedErrorHandler(r, cur[r].out, "mark")
          /\ UNCHANGED <<inbox, storeVars, batch, fetchOk, probe, unparsed>>

MarkProcessedAfterValidationEscapes(r) ==
    /\ pc[r] = "mark_val"
    /\ loop = r
    /\ \/ /\ MarkSucceeds(r)
          /\ FinishItem(r, Entry(r, "validation", "none", TRUE, TRUE))
          /\ UNCHANGED <<inbox, storeVars, batch, results, fetchOk, failures, probe,
                         unparsed>>
       \/ /\ MarkFails(r)
          /\ labelled' = labelled
          /\ trace' = [trace EXCEPT ![r] =
                          Append(@, Entry(r, "validation", "mark", TRUE, FALSE))]
          /\ cur' = [cur EXCEPT ![r] = FreshWorkflow]
          /\ tenant' = [tenant EXCEPT ![r] = NoTenant]
          /\ pc' = [pc EXCEPT ![r] = "raised"]
          /\ loop' = "none"
          /\ UNCHANGED <<inbox, storeVars, batch, idx, results, fetchOk, probe, unparsed>>

\* await self.gmail.mark_as_processed(payment.email_id) inside the except
\* ValidationError clause; an exception raised here leaves the for loop and
\* is caught by the outer except clause
MarkProcessedAfterValidation(r) ==
    /\ pc[r] = "mark_val"
    /\ loop = r
    /\ \/ /\ MarkSucceeds(r)
          /\ FinishItem(r, Entry(r, "validation", "none", TRUE, TRUE))
          /\ UNCHANGED <<inbox, storeVars, batch, results, fetchOk, failures, probe, unparsed>>
       \/ /\ MarkFails(r)
          /\ labelled' = labelled
          /\ results' = [results EXCEPT ![r].errors =
                            Append(@, [kind |-> "fetch", email_id |-> "none"])]
          /\ trace' = [trace EXCEPT ![r] =
                          Append(@, Entry(r, "validation", "mark", TRUE, FALSE))]
          /\ cur' = [cur EXCEPT ![r] = FreshWorkflow]
          /\ tenant' = [tenant EXCEPT ![r] = NoTenant]
          /\ pc' = [pc EXCEPT ![r] = "done"]
          /\ loop' = "none"
          /\ UNCHANGED <<inbox, storeVars, batch, idx, fetchOk, probe, unparsed>>

Next ==
    \E r \in Runs :
        \/ process_new_payments(r)
        \/ DuplicateCheck(r)
        \/ TenantLookup(r)
        \/ AmountValidation(r)
        \/ InvoiceCall(r)
        \/ InvoiceReturn(r)
        \/ RecordPayment(r)
        \/ AdvanceLedger(r)
        \/ MarkPaymentEmailed(r)
        \/ MarkProcessed(r)
        \/ MarkProcessedAfterValidation(r)

Spec == Init /\ [][Next]_vars

TypeOK ==
    /\ labelled \subseteq inbox
    /\ loop \in Runs \cup {"none"}
    /\ failures \in 0..MaxFailures
    /\ \A r \in Runs : Running(r) /\ pc[r] # "authorize" => idx[r] \in 1..Len(batch[r])

(***************************************************************************)
(* The interval job alone, polling a mailbox that keeps receiving mail.    *)
(***************************************************************************)
\* a message that matches INTERAC_QUERY and that _parse_interac_email returns
\* None for arrives; fetch_new_payments drops it and nothing ever labels it
Deliver ==
    /\ unparsed < MaxResults
    /\ unparsed' = unparsed + 1
    /\ UNCHANGED <<mailVars, storeVars, loop, pc, batch, idx, tenant, cur, trace,
                   results, fetchOk, failures, probe>>

\* a step of the job that scheduler.add_job registers
PollStep ==
    \/ process_new_payments("sched")
    \/ DuplicateCheck("sched")
    \/ TenantLookup("sched")
    \/ AmountValidation("sched")
    \/ InvoiceCall("sched")
    \/ InvoiceReturn("sched")
    \/ RecordPayment("sched")
    \/ AdvanceLedger("sched")
    \/ MarkPaymentEmailed("sched")
    \/ MarkProcessed("sched")
    \/ MarkProcessedAfterValidation("sched")

NextLive == Deliver \/ PollStep

\* the mailbox holds a payment of a tenant, a payment of an unknown sender,
\* or both
InitLive == Init /\ inbox \subseteq {"m1", "m3"}

\* the interval trigger fires again and again, and every call the job awaits
\* returns or raises
PollProgress ==
    \/ process_new_payments("sched")
    \/ DuplicateCheck("sched")
    \/ TenantLookup("sched")
    \/ InvoiceCall("sched")
    \/ InvoiceReturn("sched")
    \/ RecordPayment("sched")
    \/ AdvanceLedger("sched")
    \/ MarkPaymentEmailed("sched")
    \/ MarkProcessed("sched")
    \/ MarkProcessedAfterValidation("sched")

\* WF_vars(AmountValidation("sched")) with ENABLED written out: the
\* comparison is enabled exactly at "validate" and only it leaves "validate"
AmountValidationFair == []<>(pc["sched"] # "validate")

\* collaborators fail at most MaxFailures times, so they stop failing
SpecLive ==
    InitLive /\ [][NextLive]_vars /\ WF_vars(PollProgress) /\ AmountValidationFair

(***************************************************************************)
(* The interval job alone, from its first cycle on, with the calls that    *)
(* have no time limit.                                                     *)
(***************************************************************************)
\* the first fetch of the job finds self.service unset and _get_credentials
\* finds no token it can use or refresh: flow.run_local_server(port=0) waits
\* for the consent redirect, and being a synchronous call it keeps the event
\* loop
AwaitAuthorization(r) ==
    /\ pc[r] = "idle"
    /\ loop = "none"
    /\ pc' = [pc EXCEPT ![r] = "authorize"]
    /\ loop' = r
    /\ UNCHANGED <<mailVars, storeVars, batch, idx, tenant, cur, trace, results,
                   fetchOk, failures, probe, unparsed>>

\* the consent arrives, run_local_server returns and the fetch goes on
AuthorizationGranted(r) ==
    /\ pc[r] = "authorize"
    /\ loop = r
    /\ FetchPayments(r)

NextCycle ==
    \/ AwaitAuthorization("sched")
    \/ AuthorizationGranted("sched")
    \/ PollStep

\* every call that has a time limit, or that the earlier cycles have seen
\* return, returns or raises; nothing makes the consent arrive
SpecCycle ==
    InitLive /\ [][NextCycle]_vars /\ WF_vars(PollProgress) /\ AmountValidationFair

(***************************************************************************)
(* The amount validator applied on its own to two-decimal amounts.         *)
(***************************************************************************)
ProbeRents == {6, 10000, 120000, 135000, 205000}
ProbeParking == {<<>>, <<0>>, <<15000>>}
ProbeDeviations == {-2, -1, 0, 1, 2}

InitAmount ==
    /\ inbox = {}
    /\ labelExists = FALSE
    /\ InitProgram
    /\ unparsed = 0
    /\ probe \in {[fn |-> "validate", amount |-> mr + ParkingOrZero(pf) + d,
                   monthly_rent |-> mr, parking_fee |-> pf, result |-> "pending"] :
                     mr \in ProbeRents, pf \in ProbeParking, d \in ProbeDeviations}

\* lines 120-131 of _process_single_payment on the probe's tenant and amount
ValidateAmount ==
    /\ probe.fn = "validate"
    /\ probe.result = "pending"
    /\ probe' = [probe EXCEPT !.result =
                    IF AmountMismatch(probe.amount, probe.monthly_rent, probe.parking_fee)
                    THEN "ValidationFailed" ELSE "ok"]
    /\ UNCHANGED <<mailVars, storeVars, loop, pc, batch, idx, tenant, cur, trace,
                   results, fetchOk, failures, unparsed>>

NextAmount == ValidateAmount

SpecAmount == InitAmount /\ [][NextAmount]_vars

(***************************************************************************)
(* The helpers of the workflow applied on their own.                       *)
(***************************************************************************)
\* years of the YYYY-MM strings given to _bump_month
ProbeYears == {0, 1, 999, 1000, 2024, 9998, 9999}

\* values of date.today()
ProbeTodays ==
    {[year |-> 2024, month |-> 11], [year |-> 2024, month |-> 12],
     [year |-> 2025, month |-> 1]}

\* next_due_month values that are not a YYYY-MM with month 01..12
ProbeMalformed ==
    {<<<<"2", "0", "2", "4", "-", "1", "3">>>>,
     <<<<"2", "0", "2", "4", "-", "0", "0">>>>,
     <<<<"2", "0", "2", "4">>>>,
     <<<<"2", "0", "2", "4", "-", "1", "-", "1">>>>,
     <<<<"n", "e", "x", "t">>>>,
     <<<<"1", "0", "0", "0", "0", "-", "0", "1">>>>,
     <<<<"2", "1", "4", "7", "4", "8", "3", "6", "4", "7", "-", "0", "1">>>>,
     <<<<"2", "1", "4", "7", "4", "8", "3", "6", "4", "8", "-", "0", "1">>>>}

\* arguments of _bump_month: None, the empty string, YYYY-MM strings and
\* malformed strings
ProbeYearMonths ==
    {<<>>, <<<<>>>>} \cup {<<FormatYearMonth(y, m)>> : y \in ProbeYears, m \in 1..12}
        \cup ProbeMalformed

\* values of payment.message_line
ProbeMessages ==
    {<<>>, <<<<>>>>,
     <<<<"N", "o", "v", "e", "m", "b", "e", "r", " ", "R", "e", "n", "t">>>>,
     <<<<"N", "o", "v", "e", "m", "b", "e", "r", " ", "r", "e", "n", "t">>>>,
     <<<<"N", "o", "v", "e", "m", "b", "e", "r", " ", "R", "E", "N", "T">>>>,
     <<<<"N", "o", "v", " ", "r", "E", "n", "T">>>>,
     <<<<"r", "e", "n", "t">>>>,
     <<<<" ", "R", "e", "n", "t", " ">>>>,
     <<<<"D", "e", "c">>>>}

\* values of tenant.get("next_due_month")
ProbeNextDue ==
    {<<>>, <<<<>>>>, <<FormatYearMonth(2024, 10)>>, <<FormatYearMonth(2024, 13)>>}
        \cup ProbeMalformed

\* values of payment.payment_date
ProbeDates == {[year |-> 2024, month |-> 11, day |-> 1], [year |-> 2025, month |-> 1, day |-> 15]}

\* values of payment.sender_name
ProbeNames ==
    {<<"A", "l">>, <<"A", "L">>, <<"a", "l">>, <<"a", "L">>,
     <<"A", "_">>, <<"_", "l">>, <<"_", "_">>, <<"%">>,
     <<"A", "%">>, <<"%", "o">>, <<"B", "o">>, <<"b", "O">>,
     <<"B">>, <<"C", "y">>, <<"A", "l", "o">>, <<"l", "A">>}

InitFunctions ==
    /\ inbox = {}
    /\ labelExists = FALSE
    /\ InitProgram
    /\ unparsed = 0
    /\ probe \in
           {[fn |-> "bump", year_month |-> ym, today |-> td, zero_pad |-> zp,
             done |-> FALSE, result |-> <<>>] :
               ym \in ProbeYearMonths, td \in ProbeTodays, zp \in BOOLEAN}
           \cup
           {[fn |-> "period", message_line |-> ml, next_due_month |-> nd,
             payment_date |-> pd, zero_pad |-> zp, done |-> FALSE, result |-> <<>>] :
               ml \in ProbeMessages, nd \in ProbeNextDue, pd \in ProbeDates,
               zp \in BOOLEAN}
           \cup
           {[fn |-> "lookup", name |-> n, done |-> FALSE, result |-> <<>>] :
               n \in ProbeNames}

\* new_next_due = self._bump_month(tenant.get("next_due_month"))
BumpMonth ==
    /\ probe.fn = "bump"
    /\ ~probe.done
    /\ probe' = [probe EXCEPT !.done = TRUE,
                     !.result = bump_month(probe.year_month, probe.today, probe.zero_pad)]
    /\ UNCHANGED <<mailVars, storeVars, loop, pc, batch, idx, tenant, cur, trace,
                   results, fetchOk, failures, unparsed>>

\* period = self._determine_period(payment, tenant)
DeterminePeriod ==
    /\ probe.fn = "period"
    /\ ~probe.done
    /\ probe' = [probe EXCEPT !.done = TRUE,
                     !.result = determine_period(probe.message_line, probe.next_due_month,
                                                 probe.payment_date, probe.zero_pad)]
    /\ UNCHANGED <<mailVars, storeVars, loop, pc, batch, idx, tenant, cur, trace,
                   results, fetchOk, failures, unparsed>>

\* SupabaseClient.get_tenant_by_name: result.data[0] if result.data else None,
\* the rows in the order the database returns them
GetTenantByName ==
    /\ probe.fn = "lookup"
    /\ ~probe.done
    /\ \/ /\ TenantsNamed(probe.name) = {}
          /\ probe' = [probe EXCEPT !.done = TRUE, !.result = <<>>]
       \/ \E t \in TenantsNamed(probe.name) :
              probe' = [probe EXCEPT !.done = TRUE, !.result = <<t>>]
    /\ UNCHANGED <<mailVars, storeVars, loop, pc, batch, idx, tenant, cur, trace,
                   results, fetchOk, failures, unparsed>>

NextFunctions == BumpMonth \/ DeterminePeriod \/ GetTenantByName

SpecFunctions == InitFunctions /\ [][NextFunctions]_vars

(***************************************************************************)
(* The parser applied on its own.                                          *)
(***************************************************************************)
\* what stands in the subject before "You've received"
ProbePrefixes ==
    {<<>>,
     <<"I", "n", "t", "e", "r", "a", "c", " ", "e", "-", "T", "r", "a", "n", "s", "f",
       "e", "r", ":", " ">>}

\* amounts as the subject writes them
ProbeAmountTexts ==
    {<<"1", ",", "2", "3", "4", ".", "5", "6">>,
     <<"1", ",", "3", "5", "0", ".", "0", "0">>,
     <<"0", ".", "5", "0">>,
     <<"9", "0", "0", ".", "0", "0">>}

\* sender names as the subject writes them, word by word
ProbeNameWords ==
    {<<<<"j", "o", "h", "n">>, <<"D", "O", "E">>>>,
     <<<<"m", "a", "r", "y">>, <<"a", "n", "n", "e">>, <<"s", "m", "i", "t", "h">>>>,
     <<<<"A", "L">>>>,
     <<<<"o", "'", "n", "e", "i", "l">>>>}

\* the number of spaces between the words of a name
ProbeGaps == {1, 2}

\* n spaces
Blanks(n) == [k \in 1..n |-> " "]

\* words with gap spaces between them
RECURSIVE Spaced(_, _)
Spaced(words, gap) ==
    IF Len(words) = 1 THEN words[1]
    ELSE words[1] \o Blanks(gap) \o Spaced(Tail(words), gap)

\* a subject in the form "You've received $X.XX from Name"
SubjectOf(prefix, amount_text, words, gap) ==
    prefix \o AmountPrefix \o amount_text \o <<" ">> \o FromWord \o <<" ">>
        \o Spaced(words, gap)

\* subjects in other forms
ProbeOddSubjects ==
    {<<"Y", "o", "u", "'", "v", "e", " ", "r", "e", "c", "e", "i", "v", "e", "d", " ",
       "$", "0", ".", "0", "0", " ", "f", "r", "o", "m", " ", "A", "l">>,
     <<"Y", "o", "u", "'", "v", "e", " ", "r", "e", "c", "e", "i", "v", "e", "d", " ",
       "$", "5", ".", "0", "0", " ", "f", "r", "o", "m", " ", " ">>,
     <<"Y", "o", "u", "'", "v", "e", " ", "r", "e", "c", "e", "i", "v", "e", "d", " ",
       "$", "5", ".", "0", "0", " ", "f", "r", "o", "m", " ">>,
     <<"Y", "o", "u", "'", "v", "e", " ", "r", "e", "c", "e", "i", "v", "e", "d", " ",
       "$", "5", ".", "0", "0">>,
     <<"P", "a", "y", "m", "e", "n", "t", " ", "f", "r", "o", "m", " ", "A", "l">>,
     <<"Y", "o", "u", "'", "v", "e", " ", "r", "e", "c", "e", "i", "v", "e", "d", " ",
       "$", "1", ".", "5", " ", "f", "r", "o", "m", " ", "A", "l">>,
     <<"y", "o", "u", "'", "v", "e", " ", "R", "E", "C", "E", "I", "V", "E", "D", " ",
       "$", "2", ".", "0", "0", " ", "F", "R", "O", "M", " ", "b", "o">>,
     <<"Y", "o", "u", "'", "v", "e", " ", "r", "e", "c", "e", "i", "v", "e", "d", " ",
       "$", "3", ".", "0", "0", " ", "f", "r", "o", "m", " ", "A", "l", "\n">>}

ProbeSubjects ==
    ProbeOddSubjects
        \cup {SubjectOf(prefix, amount_text, words, gap) :
                  prefix \in ProbePrefixes, amount_text \in ProbeAmountTexts,
                  words \in ProbeNameWords, gap \in ProbeGaps}

\* bodies of the notification e-mail
ProbeBodies ==
    {<<>>,
     <<"M", "e", "s", "s", "a", "g", "e", ":", " ", "N", "o", "v", " ", "r", "e", "n",
       "t", " ", "D", "a", "t", "e", ":", " ", "N", "o", "v", " ", "3", ",", " ", "2",
       "0", "2", "4">>,
     <<"M", "e", "s", "s", "a", "g", "e", ":", " ", "D", "e", "c", "e", "m", "b", "e",
       "r", " ", "r", "e", "n", "t", " ", "D", "a", "t", "e", ":", " ", "D", "e", "c",
       "e", "m", "b", "e", "r", " ", "1", ",", " ", "2", "0", "2", "4">>,
     <<"<", "p", ">", "M", "e", "s", "s", "a", "g", "e", ":", " ", "p", "a", "i", "d",
       "<", "/", "p", ">", "\n", "R", "e", "f", "e", "r", "e", "n", "c", "e", " ",
       "1">>,
     <<"D", "a", "t", "e", ":", " ", "F", "e", "b", " ", "3", "0", ",", " ", "2", "0",
       "2", "4">>,
     <<"D", "a", "t", "e", ":", " ", "N", "o", "v", " ", "3", ",", "2", "0", "2",
       "4">>,
     <<"D", "a", "t", "e", ":", " ", "S", "e", "p", "t", " ", "3", ",", " ", "2", "0",
       "2", "4">>,
     <<"M", "e", "s", "s", "a", "g", "e", ":", " ", "D", "a", "t", "e", ":", " ", "N",
       "o", "v", "e", "m", "b", "e", "r", " ", "1", ",", " ", "2", "0", "2", "4">>,
     <<"M", "e", "s", "s", "a", "g", "e", ":", " ", "d", "o", " ", "i", "t", " ", "S",
       "e", "n", "t", " ", "F", "r", "o", "m", ":", " ", "x">>,
     <<"D", "a", "t", "e", ":", " ", " ", "F", "e", "b", " ", "2", "9", ",", " ", "2",
       "0", "2", "4">>,
     <<"M", "e", "s", "s", "a", "g", "e", ":", " ", "h", "e", "l", "l", "o">>,
     <<"D", "A", "T", "E", ":", " ", "M", "A", "Y", " ", "1", ",", " ", "2", "0", "2",
       "4", " ", "A", "m", "o", "u", "n", "t", ":", " ", "5">>}

\* values of email_date.date()
ProbeReceived ==
    {[year |-> 2020, month |-> 1, day |-> 2], [year |-> 2024, month |-> 11, day |-> 3]}

\* the subjects every body is parsed with
ProbeFewSubjects ==
    {<<"I", "n", "t", "e", "r", "a", "c", " ", "e", "-", "T", "r", "a", "n", "s", "f",
       "e", "r", ":", " ", "Y", "o", "u", "'", "v", "e", " ", "r", "e", "c", "e", "i",
       "v", "e", "d", " ", "$", "1", ",", "3", "5", "0", ".", "0", "0", " ", "f", "r",
       "o", "m", " ", "j", "o", "h", "n", " ", "D", "O", "E">>,
     <<"P", "a", "y", "m", "e", "n", "t", " ", "f", "r", "o", "m", " ", "A", "l">>}

\* the bodies every subject is parsed with
ProbeFewBodies ==
    {<<>>,
     <<"M", "e", "s", "s", "a", "g", "e", ":", " ", "N", "o", "v", " ", "r", "e", "n",
       "t", " ", "D", "a", "t", "e", ":", " ", "N", "o", "v", " ", "3", ",", " ", "2",
       "0", "2", "4">>}

\* every subject with a few bodies, every body with a few subjects
InitParser ==
    /\ inbox = {}
    /\ labelExists = FALSE
    /\ InitProgram
    /\ unparsed = 0
    /\ probe \in {[fn |-> "parse", subject |-> s, body |-> b, email_date |-> d,
                    done |-> FALSE, result |-> <<>>] :
                      s \in ProbeSubjects, b \in ProbeFewBodies, d \in ProbeReceived}
                  \cup
                  {[fn |-> "parse", subject |-> s, body |-> b, email_date |-> d,
                    done |-> FALSE, result |-> <<>>] :
                      s \in ProbeFewSubjects, b \in ProbeBodies, d \in ProbeReceived}

\* parsed = self._parse_interac_email(message_id=msg_id, subject=subject,
\* body=body, email_date=email_date)
ParseInteracEmail ==
    /\ probe.fn = "parse"
    /\ ~probe.done
    /\ probe' = [probe EXCEPT !.done = TRUE,
                     !.result = parse_interac_email("m1", probe.subject, probe.body,
                                                    probe.email_date)]
    /\ UNCHANGED <<mailVars, storeVars, loop, pc, batch, idx, tenant, cur, trace,
                   results, fetchOk, failures, unparsed>>

NextParser == ParseInteracEmail

SpecParser == InitParser /\ [][NextParser]_vars

(***************************************************************************)
(* What the properties speak about.                                        *)
(***************************************************************************)
RecordCount(e) == Cardinality({i \in DOMAIN payments : payments[i].email_id = e})

HasRecord(e) == RecordCount(e) > 0

\* per notification and tenant row, the verdict of the amount check
Mismatches ==
    [e \in Emails |-> [t \in TenantIds |->
        AmountMismatch(Parsed[e].amount, InitialTenants[t].monthly_rent,
                       InitialTenants[t].parking_fee)]]

\* the sender is no tenant, or the amount is not what a matching tenant owes
FailsValidation(e) ==
    \/ TenantsNamed(Parsed[e].sender_name) = {}
    \/ \E t \in TenantsNamed(Parsed[e].sender_name) : Mismatches[e][t]

Terminal == {"success", "skipped", "validation"}

Last(s) == s[Len(s)]

\* exact distance in cents between the amount and rent plus parking
CentsOff(p) ==
    IF p.amount >= p.monthly_rent + ParkingOrZero(p.parking_fee)
    THEN p.amount - (p.monthly_rent + ParkingOrZero(p.parking_fee))
    ELSE (p.monthly_rent + ParkingOrZero(p.parking_fee)) - p.amount

\* s without the occurrences of word, whatever the case of their letters
RECURSIVE RemoveIgnoringCase(_, _)
RemoveIgnoringCase(s, word) ==
    IF Len(s) < Len(word) THEN s
    ELSE IF Lower(SubSeq(s, 1, Len(word))) = word
         THEN RemoveIgnoringCase(SubSeq(s, Len(word) + 1, Len(s)), word)
         ELSE <<s[1]>> \o RemoveIgnoringCase(Tail(s), word)

RentWord == <<"r", "e", "n", "t">>

\* the memo spells every "rent" in it as rent or Rent
SpellsRentPlainly(s) ==
    \A i \in 1..(Len(s) - 3) :
        Lower(SubSeq(s, i, i + 3)) = RentWord =>
            SubSeq(s, i + 1, i + 3) = <<"e", "n", "t">>

\* a well-formed YYYY-MM with month 01..12
IsYearMonth(s) ==
    /\ Len(s) = 7
    /\ \A i \in {1, 2, 3, 4, 6, 7} : IsDigit(s[i])
    /\ s[5] = "-"
    /\ ParseInt(SubSeq(s, 6, 7)) \in 1..12

YearOf(s) == ParseInt(SubSeq(s, 1, 4))

MonthOf(s) == ParseInt(SubSeq(s, 6, 7))

\* the calendar month after year y, month m, as YYYY-MM
MonthAfter(y, m) ==
    IF m = 12 THEN FormatYearMonth(y + 1, 1) ELSE FormatYearMonth(y, m + 1)

\* an optional string that is None or empty
Absent(opt) == opt = <<>> \/ opt[1] = <<>>

\* _parse_interac_email has been applied to the probe
ParseDone == probe.fn = "parse" /\ probe.done

\* the subject says "You've received $" and an amount with two decimals
ContainsAmount(subject) ==
    \E i \in 1..Len(subject), n \in 1..Len(subject) :
        LET p == i + Len(AmountPrefix)
        IN  /\ MatchesAt(subject, i, AmountPrefix)
            /\ p + n + 2 <= Len(subject)
            /\ \A k \in p..(p + n - 1) : subject[k] \in Digits \cup {","}
            /\ \E k \in p..(p + n - 1) : subject[k] \in Digits
            /\ subject[p + n] = "."
            /\ subject[p + n + 1] \in Digits
            /\ subject[p + n + 2] \in Digits

\* the subject says "from", whitespace and a name
ContainsSender(subject) ==
    \E i \in 1..Len(subject) :
        /\ MatchesAt(subject, i, FromWord)
        /\ i + Len(FromWord) <= Len(subject)
        /\ subject[i + Len(FromWord)] \in Spaces
        /\ \E k \in (i + Len(FromWord))..Len(subject) : subject[k] \notin Spaces

\* a calendar date
IsDate(d) ==
    /\ d.year \in 1..9999
    /\ d.month \in 1..12
    /\ d.day \in 1..DaysInMonth(d.year, d.month)

\* the amount written as amount_text, in cents
CentsWritten(amount_text) == ParseInt(SelectSeq(amount_text, IsDigit))

\* the words with the first letter in upper case and the others in lower
\* case, one space between them
RECURSIVE TitleCased(_)
TitleCased(words) ==
    LET word == [k \in 1..Len(words[1]) |->
                    IF k = 1 THEN UpperChar(words[1][k]) ELSE LowerChar(words[1][k])]
    IN  IF Len(words) = 1 THEN word
        ELSE word \o <<" ">> \o TitleCased(Tail(words))

\* the trimmed text between the first "Message:" that a terminator follows
\* and the first terminator after it, or nothing
TextAfterMessage(clean) ==
    LET Followed(i) ==
            /\ MatchesAt(clean, i, MessageWord)
            /\ \E t \in (i + Len(MessageWord))..Len(clean) : TerminatorAt(clean, t)
    IN  IF \E i \in 1..Len(clean) : Followed(i)
        THEN LET i == CHOOSE i \in 1..Len(clean) :
                          Followed(i) /\ \A j \in 1..(i - 1) : ~Followed(j)
                 p == i + Len(MessageWord)
                 t == CHOOSE t \in p..Len(clean) :
                          /\ TerminatorAt(clean, t)
                          /\ \A u \in p..(t - 1) : ~TerminatorAt(clean, u)
             IN  <<Strip(SubSeq(clean, p, t - 1))>>
        ELSE <<>>

\* the date written at position i as "Date:", a month name in full or in
\* three letters, a day, a comma and a four-digit year, if it is one of the
\* calendar
DateWrittenAt(s, i) ==
    LET a == i + Len(DateWord) + RunLen(s, i + Len(DateWord), Spaces)
        b == a + RunLen(s, a, Letters)
        c == b + RunLen(s, b, Spaces)
        d == c + RunLen(s, c, Digits)
        e == d + 1 + RunLen(s, d + 1, Spaces)
        Named(m) == Lower(SubSeq(s, a, b - 1)) \in {Lower(MonthNames[m]),
                                                    Lower(SubSeq(MonthNames[m], 1, 3))}
    IN  IF /\ MatchesAt(s, i, DateWord)
           /\ \E m \in 1..12 : Named(m)
           /\ d - c \in {1, 2}
           /\ d <= Len(s)
           /\ s[d] = ","
           /\ RunLen(s, e, Digits) = 4
        THEN LET date == [year |-> ParseInt(SubSeq(s, e, e + 3)),
                          month |-> CHOOSE m \in 1..12 : Named(m),
                          day |-> ParseInt(SubSeq(s, c, d - 1))]
             IN  IF IsDate(date) THEN <<date>> ELSE <<>>
        ELSE <<>>

\* the first date written in the canonicalised body, or nothing
DateWritten(clean) ==
    IF \E i \in 1..Len(clean) : DateWrittenAt(clean, i) # <<>>
    THEN DateWrittenAt(clean, CHOOSE i \in 1..Len(clean) :
                                  /\ DateWrittenAt(clean, i) # <<>>
                                  /\ \A j \in 1..(i - 1) : DateWrittenAt(clean, j) = <<>>)
    ELSE <<>>

(***************************************************************************)
(* Properties.                                                             *)
(***************************************************************************)

\* C1: mark_as_processed is called for a notification only after its
\* workflow ended in success, skipped or a validation failure, and a
\* notification whose workflow raised any other exception is not marked in
\* that cycle.
C1_MarkOnlyAfterTerminalOutcome ==
    \A r \in Runs :
        /\ pc[r] \in {"mark_ok", "mark_val"} => cur[r].out \in Terminal
        /\ \A i \in DOMAIN trace[r] :
               /\ trace[r][i].markCalled => trace[r][i].out \in Terminal
               /\ trace[r][i].marked => trace[r][i].email_id \in labelled
               /\ trace[r][i].out = "fatal" =>
                      ~trace[r][i].markCalled /\ ~trace[r][i].marked

\* a cycle in which one notification went fatal and another was marked
C1_Witness ==
    \E r \in Runs : \E i, j \in DOMAIN trace[r] :
        trace[r][i].out = "fatal" /\ trace[r][j].marked

\* C2: processing a payment whose email_id already has a payment record
\* returns skipped (duplicate) whenever the duplicate query answers, and the
\* call changes no payment record, no tenant ledger field and creates no
\* invoice.
C2_DuplicateIsSkippedUnchanged ==
    [][\A r \in Runs :
          (pc[r] = "dup" /\ loop = r /\ HasRecord(CurEmail(r))) =>
              /\ payments' = payments
              /\ tenants' = tenants
              /\ invoices' = invoices
              /\ failures' = failures =>
                     /\ pc'[r] = "mark_ok"
                     /\ cur'[r].out = "skipped"
                     /\ Last(results'[r].processed) =
                            [status |-> "skipped", email_id |-> CurEmail(r)]]_vars

\* a second processing of a recorded payment has returned skipped
C2_Witness ==
    \E r \in Runs :
        pc[r] = "mark_ok" /\ cur[r].out = "skipped" /\ HasRecord(CurEmail(r))

\* C3 (as claimed): a workflow that raised after the duplicate check leaves
\* the payment record and the ledger advance of its email_id both persisted
\* or both absent.
C3_NoPartialState ==
    \A r \in Runs : \A i \in DOMAIN trace[r] :
        trace[r][i].stage \in (Stages \ {"dup"}) =>
            /\ trace[r][i].out = "fatal"
            /\ HasRecord(trace[r][i].email_id) <=> ledgerAdv[trace[r][i].email_id] > 0

\* C4 (as claimed): once a valid payment's notification is marked consumed,
\* the ledger was advanced exactly once on its account and exactly one
\* payment record carries its email_id.
C4_ConsumedMeansExactlyOnce ==
    \A e \in labelled :
        ~FailsValidation(e) => ledgerAdv[e] = 1 /\ RecordCount(e) = 1

\* C5: when create_and_send_invoice raises, the outcome is fatal with an
\* entry in errors, no payment record is inserted, the tenant ledger is
\* unchanged and the notification is not marked consumed.
C5_InvoiceFailureLeavesNothing ==
    [][\A r \in Runs :
          (pc[r] = "invoice_wait" /\ Len(trace'[r]) = Len(trace[r]) + 1) =>
              /\ Last(trace'[r]).email_id = CurEmail(r)
              /\ Last(trace'[r]).out = "fatal"
              /\ ~Last(trace'[r]).markCalled
              /\ ~Last(trace'[r]).paid
              /\ ~Last(trace'[r]).adv
              /\ Last(results'[r].errors) =
                     [kind |-> "unexpected", email_id |-> CurEmail(r)]
              /\ results'[r].processed = results[r].processed
              /\ payments' = payments
              /\ tenants' = tenants
              /\ labelled' = labelled]_vars

\* a workflow has ended because the invoicing call raised
C5_Witness ==
    \E r \in Runs : \E i \in DOMAIN trace[r] :
        trace[r][i].stage = "invoice" /\ trace[r][i].out = "fatal"

\* C6 (as claimed): every notification the fetch returned is processed to an
\* outcome in that cycle.
C6_BatchIsolation ==
    \A r \in Runs :
        (pc[r] = "done" /\ fetchOk[r]) => Len(trace[r]) = Len(batch[r])

\* C7 (as claimed): the payment store holds at most one record per email_id.
C7_UniqueEmailId == \A e \in Emails : RecordCount(e) <= 1

\* C8 (as claimed): two executions of process_new_payments are never in
\* progress at once.
C8_CyclesDoNotOverlap == Cardinality({r \in Runs : Running(r)}) <= 1

\* C9: a payment whose sender is no tenant or whose amount is off ends in a
\* validation failure recorded in errors, mark_as_processed is called for it
\* (and labels it unless that call raises), and no invoice, payment record
\* or ledger update is made for it.
C9_ValidationFailureOnlyMarks ==
    /\ \A e \in Emails :
           FailsValidation(e) => invoices[e] = 0 /\ ~HasRecord(e) /\ ledgerAdv[e] = 0
    /\ \A r \in Runs : \A i \in DOMAIN trace[r] :
           LET t == trace[r][i] IN
           /\ FailsValidation(t.email_id) =>
                  t.out = "validation" \/ (t.out = "fatal" /\ t.stage \in {"dup", "tenant"})
           /\ t.out = "validation" =>
                  /\ FailsValidation(t.email_id)
                  /\ \E k \in DOMAIN results[r].errors :
                         results[r].errors[k] = [kind |-> "validation", email_id |-> t.email_id]
                  /\ \A k \in DOMAIN results[r].processed :
                         results[r].processed[k].email_id # t.email_id
                  /\ t.markCalled
                  /\ t.marked \/ t.stage = "mark"
                  /\ t.marked => t.email_id \in labelled
                  /\ ~t.inv /\ ~t.paid /\ ~t.adv

\* one cycle has ended an unknown sender and a wrong amount in validation
\* failures and marked both
C9_Witness ==
    \E r \in Runs : \E i, j \in DOMAIN trace[r] :
        /\ trace[r][i].out = "validation" /\ trace[r][i].marked
        /\ TenantsNamed(Parsed[trace[r][i].email_id].sender_name) = {}
        /\ trace[r][j].out = "validation" /\ trace[r][j].marked
        /\ TenantsNamed(Parsed[trace[r][j].email_id].sender_name) # {}

\* C10 (as claimed): a two-decimal amount passes validation exactly when it
\* is within one cent of monthly_rent + parking_fee.
C10_ToleranceIsOneCent ==
    (probe.fn = "validate" /\ probe.result # "pending") =>
        (probe.result = "ok" <=> CentsOff(probe) <= AMOUNT_TOLERANCE)

\* the errors entry of the outer except clause of process_new_payments
BatchLevelError == [kind |-> "fetch", email_id |-> "none"]

\* C11: when fetch_new_payments raises, process_new_payments returns with
\* processed and skipped empty and exactly one batch-level entry in errors,
\* no notification is processed or marked in that cycle, and the failed
\* fetch writes nothing to the payment store, the tenant store, the
\* invoicing service or the labels.
C11_FetchFailureYieldsEmptyBatch ==
    /\ [](\A r \in Runs :
            (pc[r] = "done" /\ ~fetchOk[r]) =>
                /\ results[r].processed = <<>>
                /\ results[r].skipped = <<>>
                /\ results[r].errors = <<BatchLevelError>>
                /\ trace[r] = <<>>)
    /\ [][\A r \in Runs :
            (pc[r] \in {"idle", "done"} /\ loop = "none" /\ pc'[r] = "done"
                /\ ~fetchOk'[r] /\ failures' = failures + 1) =>
                /\ payments' = payments
                /\ tenants' = tenants
                /\ invoices' = invoices
                /\ labelled' = labelled]_vars

\* a cycle whose fetch failed while unconsumed notifications were waiting
C11_Witness ==
    \E r \in Runs :
        /\ pc[r] = "done" /\ ~fetchOk[r]
        /\ inbox \ labelled # {}
        /\ results[r].errors = <<BatchLevelError>>

\* C12: no collaborator failure escapes process_new_payments: every step in
\* which a collaborator call raises adds an entry to the errors of a run
\* that goes on to the next payment or returns (or, when it was the notifier
\* that raised, to the mark of the payment), and a returned call holds the
\* three lists processed, errors and skipped.
C12_NoExceptionEscapes ==
    /\ [](\A r \in Runs :
            /\ pc[r] # "raised"
            /\ pc[r] = "done" =>
                   DOMAIN results[r] = {"processed", "errors", "skipped"})
    /\ [][failures' > failures =>
            \E r \in Runs :
                /\ \/ pc'[r] \in {"dup", "done"}
                   \/ pc'[r] = "mark_val" /\ cur'[r].notify_raised
                /\ \/ Len(results'[r].errors) = Len(results[r].errors) + 1
                   \/ /\ pc[r] \in {"idle", "done"}
                      /\ results'[r].errors = <<BatchLevelError>>]_vars

\* a cycle has returned after mark_as_processed raised inside the except
\* ValidationError clause
C12_Witness ==
    \E r \in Runs :
        /\ pc[r] = "done"
        /\ \E i \in DOMAIN trace[r] :
               trace[r][i].out = "validation" /\ trace[r][i].stage = "mark"
        /\ Last(results[r].errors) = BatchLevelError

\* C13 (as claimed): on every success the stored last_invoice_no is one more
\* than the value stored before update_tenant_after_payment was called and
\* next_due_month is that stored value bumped by one month, and the update
\* changes no other tenant's row.
C13_LedgerAdvancesStoredValues ==
    /\ [](\A r \in Runs :
            cur[r].out = "success" =>
                /\ tenants[tenant[r].id].last_invoice_no =
                       cur[r].before.last_invoice_no + 1
                /\ \E zero_pad \in BOOLEAN :
                       tenants[tenant[r].id].next_due_month =
                           <<bump_month(cur[r].before.next_due_month, Today, zero_pad)>>)
    /\ [][\A r \in Runs : \A t \in TenantIds :
            (pc[r] = "ledger" /\ loop = r /\ t # tenant[r].id) =>
                tenants'[t] = tenants[t]]_vars

\* the list of the results of run r holds an entry for the notification
Listed(list, email_id) == \E k \in DOMAIN list : list[k].email_id = email_id

\* C15 (as claimed): every outcome is enumerated in the list of its kind, a
\* success in processed, a skipped duplicate in skipped, a validation failure
\* and a fatal outcome in errors, and a duplicate is reported neither in
\* processed nor in errors.
C15_OutcomesInTheirLists ==
    \A r \in Runs : \A i \in DOMAIN trace[r] :
        LET t == trace[r][i] IN
        /\ t.out = "success" => Listed(results[r].processed, t.email_id)
        /\ t.out \in {"validation", "fatal"} => Listed(results[r].errors, t.email_id)
        /\ t.out = "skipped" =>
               /\ Listed(results[r].skipped, t.email_id)
               /\ ~Listed(results[r].processed, t.email_id)
               /\ ~Listed(results[r].errors, t.email_id)

\* C14 (as claimed): a notification whose outcome was fatal is fetched again
\* by a later cycle and, once the collaborators have stopped failing, it
\* reaches a terminal outcome and is marked consumed.
C14_FatalIsRetriedUntilConsumed ==
    \A e \in Emails :
        (\E i \in DOMAIN trace["sched"] :
            trace["sched"][i].email_id = e /\ trace["sched"][i].out = "fatal")
        ~> (e \in labelled)

\* C16 (as claimed): for every well-formed YYYY-MM with month 01..12,
\* _bump_month returns the month one calendar month later, December wrapping
\* to January of the next year, and the result is a well-formed YYYY-MM.
C16_BumpAdvancesOneMonth ==
    (probe.fn = "bump" /\ probe.done /\ ~Absent(probe.year_month)
        /\ IsYearMonth(probe.year_month[1])) =>
        /\ probe.result =
               MonthAfter(YearOf(probe.year_month[1]), MonthOf(probe.year_month[1]))
        /\ IsYearMonth(probe.result)

\* C16 (amended): the same for every well-formed YYYY-MM whose year is
\* 1000..9999, except 9999-12.
C16_BumpAdvancesFourDigitYears ==
    (probe.fn = "bump" /\ probe.done /\ ~Absent(probe.year_month)
        /\ IsYearMonth(probe.year_month[1])
        /\ YearOf(probe.year_month[1]) >= 1000
        /\ probe.year_month[1] # FormatYearMonth(9999, 12)) =>
        /\ probe.result =
               MonthAfter(YearOf(probe.year_month[1]), MonthOf(probe.year_month[1]))
        /\ IsYearMonth(probe.result)

\* December 2024 has been bumped to January 2025
C16_Witness ==
    /\ probe.fn = "bump" /\ probe.done
    /\ probe.year_month = <<FormatYearMonth(2024, 12)>>
    /\ probe.result = FormatYearMonth(2025, 1)

\* C17: for a next_due_month that is None or empty, _bump_month returns the
\* month after the current calendar month.
C17_AbsentDueMonthBumpsFromToday ==
    (probe.fn = "bump" /\ probe.done /\ Absent(probe.year_month)) =>
        probe.result = MonthAfter(probe.today.year, probe.today.month)

\* None has been bumped in December, and the empty string in November
C17_Witness ==
    /\ probe.fn = "bump" /\ probe.done
    /\ \/ /\ probe.year_month = <<>>
          /\ probe.today.month = 12
          /\ probe.result = FormatYearMonth(probe.today.year + 1, 1)
       \/ /\ probe.year_month = <<<<>>>>
          /\ probe.today.month = 11
          /\ probe.result = FormatYearMonth(probe.today.year, 12)

\* C18: _determine_period returns the memo without "rent", trimmed, when
\* there is a memo and that remainder is not empty; otherwise the tenant's
\* next_due_month as month name and year when it is set; otherwise the
\* payment date as month name and year. Checked for memos that spell rent as
\* rent or Rent and for a next_due_month that is unset or well-formed.
C18_PeriodPrecedence ==
    (probe.fn = "period" /\ probe.done
        /\ (Absent(probe.message_line) \/ SpellsRentPlainly(probe.message_line[1]))
        /\ (Absent(probe.next_due_month) \/ IsYearMonth(probe.next_due_month[1]))) =>
        LET remainder ==
                IF Absent(probe.message_line) THEN <<>>
                ELSE Strip(RemoveIgnoringCase(probe.message_line[1], RentWord))
        IN  probe.result =
                IF remainder # <<>> THEN remainder
                ELSE IF ~Absent(probe.next_due_month)
                     THEN strftime_BY(YearOf(probe.next_due_month[1]),
                                      MonthOf(probe.next_due_month[1]), probe.zero_pad)
                     ELSE strftime_BY(probe.payment_date.year, probe.payment_date.month,
                                      probe.zero_pad)

\* the memo "November Rent" has won over the due month 2024-10
C18_Witness ==
    /\ probe.fn = "period" /\ probe.done
    /\ probe.message_line = <<<<"N", "o", "v", "e", "m", "b", "e", "r", " ", "R", "e", "n", "t">>>>
    /\ probe.next_due_month = <<FormatYearMonth(2024, 10)>>
    /\ probe.result = MonthNames[11]

\* C19 (as claimed): "rent" is removed from the memo in any capitalisation,
\* and the trimmed remainder, when not empty, is the period label.
C19_RentRemovedInAnyCase ==
    (probe.fn = "period" /\ probe.done /\ ~Absent(probe.message_line)
        /\ Strip(RemoveIgnoringCase(probe.message_line[1], RentWord)) # <<>>) =>
        probe.result = Strip(RemoveIgnoringCase(probe.message_line[1], RentWord))

\* C20 (as claimed): get_tenant_by_name returns a tenant only when its
\* stored name equals the sender name up to the case of the letters, and
\* returns None when no stored name does.
C20_LookupIsExactIgnoringCase ==
    (probe.fn = "lookup" /\ probe.done) =>
        /\ probe.result # <<>> =>
               Lower(tenants[probe.result[1]].name) = Lower(probe.name)
        /\ (\A t \in TenantIds : Lower(tenants[t].name) # Lower(probe.name)) =>
               probe.result = <<>>

\* C21: every record _parse_interac_email produces has amount > 0 and a
\* non-empty sender_name; a subject with no positive amount or no sender
\* name gives None.
C21_RecordHasAmountAndSender ==
    ParseDone /\ probe.result # <<>> =>
        /\ probe.result[1].amount > 0
        /\ probe.result[1].sender_name # <<>>

\* C22: the parser returns None exactly for the subjects that lack
\* "received $<amount>" or "from <name>", whatever the body is; a record has
\* its payment_date set and its message_line is a text or None.
C22_PresenceRule ==
    ParseDone =>
        /\ probe.result = <<>> <=>
               ~ContainsAmount(probe.subject) \/ ~ContainsSender(probe.subject)
        /\ probe.result # <<>> =>
               /\ IsDate(probe.result[1].payment_date)
               /\ Len(probe.result[1].message_line) <= 1

\* C23: for a subject of the form "You've received $X.XX from Name" the
\* record has the amount X.XX without its thousands separators and the name
\* with every word capitalised and single spaces between the words.
C23_AmountAndSenderRecovered ==
    ParseDone =>
        \A prefix \in ProbePrefixes, amount_text \in ProbeAmountTexts,
           words \in ProbeNameWords, gap \in ProbeGaps :
            probe.subject = SubjectOf(prefix, amount_text, words, gap) =>
                /\ probe.result # <<>>
                /\ probe.result[1].amount = CentsWritten(amount_text)
                /\ probe.result[1].sender_name = TitleCased(words)

\* C23: "$1,234.56 from john  DOE" has been parsed to 1234.56 and "John Doe"
C23_Witness ==
    /\ ParseDone
    /\ probe.subject =
           <<"Y", "o", "u", "'", "v", "e", " ", "r", "e", "c", "e", "i", "v", "e", "d",
             " ", "$", "1", ",", "2", "3", "4", ".", "5", "6", " ", "f", "r", "o", "m",
             " ", "j", "o", "h", "n", " ", " ", "D", "O", "E">>
    /\ probe.result # <<>>
    /\ probe.result[1].amount = 123456
    /\ probe.result[1].sender_name = <<"J", "o", "h", "n", " ", "D", "o", "e">>

\* C24: message_line is the trimmed text between "Message:" and the first
\* of "Date:", "Reference", "Sent From:" and "Amount:" after it, whatever
\* letters the text has, and None only when there is no such text.
C24_MessageLineUpToTerminator ==
    ParseDone /\ probe.result # <<>> =>
        probe.result[1].message_line = TextAfterMessage(body_clean(probe.body))

\* C25: payment_date is the date written after "Date:" when the body has a
\* month name, a day and a four-digit year there that are a calendar date,
\* and the date of the received timestamp otherwise.
C25_PaymentDateFromBodyOrReceived ==
    ParseDone /\ probe.result # <<>> =>
        probe.result[1].payment_date =
            IF DateWritten(body_clean(probe.body)) # <<>>
            THEN DateWritten(body_clean(probe.body))[1]
            ELSE probe.email_date

\* C26: _notify_landlord_error is called for a notification exactly when its
\* outcome is a validation failure, never for a success, a skipped duplicate
\* or a fatal outcome; when the notifier fails inside, the notification is
\* still recorded in errors as a validation failure and mark_as_processed is
\* still called for it.
C26_NotifiedExactlyOnValidationFailure ==
    \A r \in Runs :
        /\ cur[r].notified <=> cur[r].out = "validation"
        /\ cur[r].notify_raised =>
               /\ pc[r] = "mark_val"
               /\ \E k \in DOMAIN results[r].errors :
                      results[r].errors[k] = [kind |-> "validation", email_id |-> CurEmail(r)]
        /\ \A i \in DOMAIN trace[r] :
               LET t == trace[r][i] IN
               /\ t.notified <=> t.out = "validation"
               /\ t.notify_raised =>
                      /\ t.out = "validation"
                      /\ \E k \in DOMAIN results[r].errors :
                             results[r].errors[k] =
                                 [kind |-> "validation", email_id |-> t.email_id]
                      /\ t.markCalled
                      /\ t.marked \/ t.stage = "mark"
                      /\ t.marked => t.email_id \in labelled

\* C26: the notifier failed inside for a validation failure that was then
\* marked, after a success of the same cycle that was not notified
C26_Witness ==
    \E r \in Runs : \E i, j \in DOMAIN trace[r] :
        /\ trace[r][i].out = "success" /\ ~trace[r][i].notified
        /\ trace[r][j].out = "validation" /\ trace[r][j].notified
        /\ trace[r][j].notify_raised /\ trace[r][j].marked

\* C27: no external call blocks a poll cycle for ever: every cycle that has
\* started comes to its end.
C27_EveryCycleTerminates ==
    \A r \in Runs : (pc[r] \notin {"idle", "done"}) ~> (pc[r] = "done")

\* the order of the collaborator calls of one workflow, as steps of a run
WorkflowOrder ==
    {<<"dup", "tenant">>, <<"tenant", "validate">>, <<"validate", "invoice">>,
     <<"invoice", "invoice_wait">>, <<"invoice_wait", "record">>,
     <<"record", "ledger">>, <<"ledger", "emailed">>, <<"emailed", "mark_ok">>,
     <<"dup", "mark_ok">>, <<"tenant", "mark_val">>, <<"validate", "mark_val">>}

\* the steps that end a payment (marked, or an exception caught) or start a cycle
ItemBoundary ==
    {<<from, to>> \in {"idle", "done", "dup", "tenant", "invoice_wait", "record",
                       "ledger", "emailed", "mark_ok", "mark_val"} \X {"dup", "done"} :
        from = "idle" => to # "idle"}

\* C28: the calls of a workflow occur in the order duplicate check, tenant
\* lookup, amount validation, invoice, payment insert, ledger update, receipt
\* flag, and only then the mark; each store changes only at its own call; a
\* payment that was skipped or failed validation has no invoice, no payment
\* row and no ledger update.
C28_WorkflowOrdering ==
    [][/\ \A r \in Runs :
            pc'[r] # pc[r] => <<pc[r], pc'[r]>> \in WorkflowOrder \cup ItemBoundary
       /\ invoices' # invoices =>
            \E r \in Runs : pc[r] = "invoice_wait" /\ pc'[r] = "record"
       /\ Len(payments') # Len(payments) =>
            \E r \in Runs : pc[r] = "record" /\ pc'[r] = "ledger"
       /\ tenants' # tenants =>
            \E r \in Runs : pc[r] = "ledger" /\ pc'[r] = "emailed"
       /\ (payments' # payments /\ Len(payments') = Len(payments)) =>
            \E r \in Runs : pc[r] = "emailed" /\ pc'[r] = "mark_ok"
       /\ labelled' # labelled =>
            \E r \in Runs : pc[r] \in {"mark_ok", "mark_val"} /\ pc'[r] # pc[r]
       /\ \A r \in Runs : \A i \in DOMAIN trace'[r] :
            /\ trace'[r][i].out \in {"skipped", "validation"} =>
                  ~trace'[r][i].inv /\ ~trace'[r][i].paid /\ ~trace'[r][i].adv
            /\ trace'[r][i].out = "success" =>
                  trace'[r][i].inv /\ trace'[r][i].paid /\ trace'[r][i].adv
      ]_vars

\* C28 witness: one payment went through every call and was marked, and
\* another was skipped or failed validation and was marked.
C28_Witness ==
    /\ \E r \in Runs : \E i \in DOMAIN trace[r] :
          trace[r][i].out = "success" /\ trace[r][i].marked
    /\ \E r \in Runs : \E i \in DOMAIN trace[r] :
          trace[r][i].out \in {"skipped", "validation"} /\ trace[r][i].marked

\* C29: across the retries of one notification create_and_send_invoice
\* completes at most once for its email_id.
C29_AtMostOneInvoicePerEmail == \A e \in Emails : invoices[e] <= 1

\* a stored month bumped n times
RECURSIVE BumpTimes(_, _)
BumpTimes(year_month, n) ==
    IF n = 0 THEN year_month
    ELSE BumpTimes(<<bump_month(year_month, Today, TRUE)>>, n - 1)

\* every payment of the batch of a finished cycle succeeded, all for one tenant
AllSucceeded(entries, payments_of_batch) ==
    /\ Len(entries) >= 1
    /\ Len(entries) = Len(payments_of_batch)
    /\ \A i \in DOMAIN entries :
          entries[i].out = "success" /\ entries[i].before.id = entries[1].before.id

\* C30: a cycle works through its batch one payment after the other, the
\* next workflow starting when the previous one and its mark are over, and
\* each workflow validates against the tenant row as stored; a batch of k
\* payments of one tenant that all succeed leaves last_invoice_no k above and
\* next_due_month k months after what was stored before the first update.
C30_BatchRaisesLedgerByK ==
    /\ [](\A r \in Runs :
            /\ (Running(r) /\ pc[r] # "authorize") =>
                  /\ Len(trace[r]) = idx[r] - 1
                  /\ \A i \in DOMAIN trace[r] : trace[r][i].email_id = batch[r][i]
            /\ pc[r] \in {"validate", "invoice"} => tenant[r] = tenants[tenant[r].id])
    /\ [][\A r \in Runs :
            (pc[r] # "done" /\ pc'[r] = "done" /\ AllSucceeded(trace'[r], batch'[r])) =>
                LET first == trace'[r][1].before
                    k     == Len(trace'[r])
                IN  /\ tenants'[first.id].last_invoice_no = first.last_invoice_no + k
                    /\ tenants'[first.id].next_due_month =
                           BumpTimes(first.next_due_month, k)]_vars

\* the workflow of the notification has returned a success: its payment row
\* carries the receipt flag
Succeeded(e) == \E i \in DOMAIN payments : payments[i].email_id = e /\ payments[i].email_sent

\* the payment rows of the notification
RowsOf(e) == {i \in DOMAIN payments : payments[i].email_id = e}

\* run r is at the mark that follows a workflow with the given outcome and
\* takes the step in which that call raises
MarkRaisesAfter(r, out) ==
    pc[r] = "mark_ok" /\ loop = r /\ cur[r].out = out /\ failures' > failures

\* C31: when mark_as_processed raises after a successful workflow, the
\* payment row and the ledger advance stay, the notification stays unlabelled
\* and is listed in processed and in errors of that cycle; from that failed
\* mark on no further invoice, payment row or ledger update is made for the
\* notification, its next duplicate check that answers gives skipped, and the
\* mark after it labels the notification unless that call raises.
C31_RetryAfterFailedMarkIsDuplicate ==
    [][/\ \A r \in Runs :
            MarkRaisesAfter(r, "success") =>
                /\ payments' = payments /\ tenants' = tenants /\ invoices' = invoices
                /\ Succeeded(CurEmail(r)) /\ ledgerAdv'[CurEmail(r)] >= 1
                /\ CurEmail(r) \notin labelled'
                /\ Listed(results'[r].processed, CurEmail(r))
                /\ Listed(results'[r].errors, CurEmail(r))
       /\ \A e \in Emails :
            (Succeeded(e) /\ e \notin labelled /\ \A r \in Runs : pc[r] # "mark_ok") =>
                /\ invoices'[e] = invoices[e]
                /\ Cardinality(RowsOf(e)) = Cardinality({i \in DOMAIN payments' :
                                                           payments'[i].email_id = e})
                /\ ledgerAdv'[e] = ledgerAdv[e]
       /\ \A r \in Runs :
            /\ (pc[r] = "dup" /\ loop = r /\ Succeeded(CurEmail(r))
                    /\ failures' = failures /\ pc'[r] # pc[r]) =>
                  pc'[r] = "mark_ok" /\ cur'[r].out = "skipped"
            /\ (pc[r] = "mark_ok" /\ loop = r /\ cur[r].out = "skipped"
                    /\ failures' = failures /\ pc'[r] # pc[r]) =>
                  CurEmail(r) \in labelled'
      ]_vars

\* an optional string that is set and is not a YYYY-MM with month 01..12
Malformed(opt) == ~Absent(opt) /\ ~IsYearMonth(opt[1])

\* C32: from a next_due_month that is unset or a well-formed YYYY-MM the
\* workflow writes a well-formed YYYY-MM with month 01..12; a malformed stored
\* next_due_month never raises: _bump_month replaces it by the month after
\* the current one and _determine_period passes over it to the payment date.
C32_LedgerStaysWellFormed ==
    /\ (probe.fn = "bump" /\ probe.done) =>
          /\ ~Malformed(probe.year_month) => IsYearMonth(probe.result)
          /\ Malformed(probe.year_month) =>
                probe.result = MonthAfter(probe.today.year, probe.today.month)
    /\ (probe.fn = "period" /\ probe.done /\ Malformed(probe.next_due_month)
            /\ (Absent(probe.message_line) \/ CleanMessage(probe.message_line[1]) = <<>>)) =>
          probe.result = strftime_BY(probe.payment_date.year, probe.payment_date.month,
                                     probe.zero_pad)

====
